---- MODULE Spec2Model ----
(***************************************************************************)
(* Correlation engine of tft-vod-review: the Riot rate limiter             *)
(* (electron/services/riot-rate-limiter.ts), the VOD folder watcher        *)
(* (electron/services/vod-watcher.ts) and the auto-linker                  *)
(* (createAutoLinker, with electron/database.ts and electron/ipc/router.ts)*)
(* Each component has its own specification: SpecRL, SpecW, SpecL.         *)
(***************************************************************************)
EXTENDS Integers, Sequences, FiniteSets, TLC

(***************************************************************************)
(* Bounds of the model                                                     *)
(***************************************************************************)
\* number of concurrent callers of withRiotRateLimit
NCallers == 3
\* granularity of the readings of Date.now(), in ms
TickMs == 50
\* the clock may always advance this many ticks; it advances further only
\* while a sleeping caller still waits for its timer
MaxTicks == 4
\* calls of the unqueued limiter of main.ts in one behaviour
MaxUnqueuedCalls == 4

(***************************************************************************)
(* Rate limiter configuration (createRiotRateLimiter params), scaled so    *)
(* that the rolling window saturates with a few callers.                   *)
(***************************************************************************)
minIntervalMs == 100
windowMs == 250
windowMax == 2
\* the "+ 50" safety buffer of the rolling-window wait
WindowSlackMs == 50

Callers == 1..NCallers
\* Date.now() at construction: far from the initial lastRequestAt = 0
StartMs == windowMs
MaxNow == StartMs + MaxTicks * TickMs

VARIABLES
  \* ---- rate limiter ----
  now,             \* Date.now()
  lastRequestAt,   \* let lastRequestAt
  recentRequests,  \* let recentRequests: number[]
  queue,           \* the promise chain: callers in the order they were chained
  pc,              \* where each caller's run is
  wakeAt,          \* the time a sleeping caller's setTimeout is due
  outcome,         \* how a caller's operation fn settled
  delivered,       \* what the promise returned to the caller settled with
  calledAt,        \* history: when each caller invoked withRiotRateLimit
  grants           \* history: <<caller, timestamp>> of every grant, in order

rlVars == <<now, lastRequestAt, recentRequests, queue, pc, wakeAt, outcome,
            delivered, calledAt, grants>>

VARIABLES
  \* ---- watcher ----
  watchPath,       \* let watchPath: string | null
  watcher,         \* let watcher: fs.FSWatcher | null (TRUE: open)
  rescanTimer,     \* let rescanTimer: the handle of a timeout, 0 for null
  pollTimer,       \* let pollTimer: ms until the interval fires next, NoTimer for null
  timeouts,        \* the event loop's pending setTimeout callbacks of the watcher
  rescanInFlight,  \* let rescanInFlight
  rescanQueued,    \* let rescanQueued
  rescans,         \* the onRescan calls: "free" or "running"
  sawTrigger,      \* history: a trigger reached rescanAndMaybeQueue while this rescan ran
  sinceEvent,      \* history: ms since the last filesystem event (capped at debounceMs)
  burst            \* history: events of this session since a rescan last started (saturates)

wVars == <<watchPath, watcher, rescanTimer, pollTimer, timeouts, rescanInFlight,
           rescanQueued, rescans, sawTrigger, sinceEvent, burst>>

VARIABLES
  \* vods table: match_id, match_link_status, match_link_confidence_ms,
  \* match_link_candidates, match_link_error of every row
  db,
  \* settings hold riot_api_key and riot_puuid
  configured,
  autoLinkTimer,
  \* pending setTimeout callbacks of scheduleAutoLink: handle -> delay
  linkTimeouts,
  autoLinkInFlight,
  autoLinkQueued,
  matchIdsCache,
  matchTimeCache,
  \* match ids with a row in match_metadata
  matchMetadata,
  \* autoLinkAllUnlinked calls past the guard: the recordings still to visit
  passes,
  \* autoLinkVod calls suspended at an await
  attempts,
  \* history: the writes of match_link_status made by the last step, in order
  lastWrites,
  \* history: the requests made so far
  requests,
  \* history: the autoLinkVod call the last step made (vod 0: none), and the
  \* notifyVodsUpdated and withRiotRateLimit calls the last step made
  lastCall,
  lastNotified,
  lastSlots,
  \* history: the remote call that failed in the last step (vod 0: none), the
  \* await it failed at, the vodTimes the call had not tried yet and the pass
  \* that made the call (0: an IPC call)
  lastFailure,
  \* history: the keys of matchIdsCache whose entries were written while a
  \* pass was in progress
  sweepEntries

lVars == <<db, configured, autoLinkTimer, linkTimeouts, autoLinkInFlight,
           autoLinkQueued, matchIdsCache, matchTimeCache, matchMetadata,
           passes, attempts, lastWrites, requests, lastCall, lastNotified,
           lastSlots, lastFailure, sweepEntries>>

VARIABLES
  \* the get-vod-link-candidates call in progress (pc idle: none), and what
  \* the last call returned
  picker

VARIABLES
  \* the last direct call of a pure function: its inputs and its results
  probe

vars == <<rlVars, wVars, lVars, picker, probe>>

RLFrame == UNCHANGED <<wVars, lVars, picker, probe>>
WFrame == UNCHANGED <<rlVars, lVars, picker, probe>>
LFrame == UNCHANGED <<rlVars, wVars, picker, probe>>
PFrame == UNCHANGED <<rlVars, wVars, lVars, picker>>

(***************************************************************************)
(* Rate limiter                                                            *)
(***************************************************************************)
InitRL ==
  /\ now = StartMs
  /\ lastRequestAt = 0
  /\ recentRequests = <<>>
  /\ queue = <<>>
  /\ pc = [c \in Callers |-> "idle"]
  /\ wakeAt = [c \in Callers |-> 0]
  /\ outcome = [c \in Callers |-> "none"]
  /\ delivered = [c \in Callers |-> "none"]
  /\ calledAt = [c \in Callers |-> 0]
  /\ grants = <<>>

PosInQueue(c) == CHOOSE i \in 1..Len(queue) : queue[i] = c

\* waitForInterval = lastRequestAt + minIntervalMs - now
IntervalWaitMsSignSlip(last, t) == last - minIntervalMs - t
IntervalWaitMs(last, t) == last + minIntervalMs - t

\* recentRequests.filter((t) => now2 - t < windowMs)
PruneWindow(reqs, t) == SelectSeq(reqs, LAMBDA r : t - r < windowMs)

\* if (recentRequests.length >= windowMax) waitMs = oldest + windowMs - now2 + 50
WindowWaitMsOffByOne(pruned, t) ==
  IF Len(pruned) > windowMax THEN pruned[1] + windowMs - t + WindowSlackMs ELSE 0
WindowWaitMs(pruned, t) ==
  IF Len(pruned) >= windowMax THEN pruned[1] + windowMs - t + WindowSlackMs ELSE 0

\* queue.then(run, run) with queue = resultPromise.then(() => undefined, () => undefined):
\* a run starts once every run chained before it has settled, fulfilled or rejected
MayStartUnqueued(c) == TRUE
MayStartAfterGrant(c) ==
  \A i \in 1..Len(queue) :
    i < PosInQueue(c) => pc[queue[i]] \in {"running", "settled"}
MayStartPoisoned(c) ==
  \A i \in 1..Len(queue) :
    i < PosInQueue(c) => pc[queue[i]] = "settled" /\ outcome[queue[i]] = "ok"
MayStart(c) ==
  \A i \in 1..Len(queue) : i < PosInQueue(c) => pc[queue[i]] = "settled"

\* return resultPromise: the caller's promise settles as fn's promise did
DeliverSwallowed(o) == IF o = "err" THEN "undefined" ELSE o
Deliver(o) == o

\* const now3 = Date.now(); lastRequestAt = now3; recentRequests.push(now3); then fn()
GrantSlot(c, reqs) ==
  /\ lastRequestAt' = now
  /\ recentRequests' = Append(reqs, now)
  /\ grants' = Append(grants, <<c, now>>)
  /\ pc' = [pc EXCEPT ![c] = "running"]
  /\ UNCHANGED wakeAt

\* the rolling-window part of waitForSlot, entered at time now
EnterWindow(c) ==
  LET pruned == PruneWindow(recentRequests, now)
      waitMs == WindowWaitMs(pruned, now)
  IN IF waitMs > 0
       THEN /\ recentRequests' = pruned
            /\ pc' = [pc EXCEPT ![c] = "sleepWindow"]
            /\ wakeAt' = [wakeAt EXCEPT ![c] = now + waitMs]
            /\ UNCHANGED <<lastRequestAt, grants>>
       ELSE GrantSlot(c, pruned)

\* withRiotRateLimit(fn): chain run behind the queue and return its promise
Call(c) ==
  /\ pc[c] = "idle"
  /\ c = Len(queue) + 1
  /\ queue' = Append(queue, c)
  /\ pc' = [pc EXCEPT ![c] = "queued"]
  /\ calledAt' = [calledAt EXCEPT ![c] = now]
  /\ UNCHANGED <<now, lastRequestAt, recentRequests, wakeAt, outcome, delivered, grants>>
  /\ RLFrame

\* run(): waitForSlot() up to its first await
StartRun(c) ==
  /\ pc[c] = "queued"
  /\ MayStart(c)
  /\ LET waitForInterval == IntervalWaitMs(lastRequestAt, now)
     IN IF waitForInterval > 0
          THEN /\ pc' = [pc EXCEPT ![c] = "sleepInterval"]
               /\ wakeAt' = [wakeAt EXCEPT ![c] = now + waitForInterval]
               /\ UNCHANGED <<lastRequestAt, recentRequests, grants>>
          ELSE EnterWindow(c)
  /\ UNCHANGED <<now, queue, outcome, delivered, calledAt>>
  /\ RLFrame

\* the min-interval sleep ends
WakeInterval(c) ==
  /\ pc[c] = "sleepInterval"
  /\ now >= wakeAt[c]
  /\ EnterWindow(c)
  /\ UNCHANGED <<now, queue, outcome, delivered, calledAt>>
  /\ RLFrame

\* the rolling-window sleep ends: the slot is granted without a second check
WakeWindow(c) ==
  /\ pc[c] = "sleepWindow"
  /\ now >= wakeAt[c]
  /\ GrantSlot(c, recentRequests)
  /\ UNCHANGED <<now, queue, outcome, delivered, calledAt>>
  /\ RLFrame

\* fn() settles: resultPromise settles with it, the limiter state is left alone
OnOperationSettledRefund(c, o) ==
  /\ pc' = [pc EXCEPT ![c] = "settled"]
  /\ outcome' = [outcome EXCEPT ![c] = o]
  /\ delivered' = [delivered EXCEPT ![c] = Deliver(o)]
  /\ IF o = "err"
       THEN /\ recentRequests' = SubSeq(recentRequests, 1, Len(recentRequests) - 1)
            /\ lastRequestAt' = 0
       ELSE UNCHANGED <<lastRequestAt, recentRequests>>
  /\ UNCHANGED <<now, queue, wakeAt, calledAt, grants>>
OnOperationSettled(c, o) ==
  /\ pc' = [pc EXCEPT ![c] = "settled"]
  /\ outcome' = [outcome EXCEPT ![c] = o]
  /\ delivered' = [delivered EXCEPT ![c] = Deliver(o)]
  /\ UNCHANGED <<now, lastRequestAt, recentRequests, queue, wakeAt, calledAt, grants>>

Settle(c) ==
  /\ pc[c] = "running"
  /\ \E o \in {"ok", "err"} : OnOperationSettled(c, o)
  /\ RLFrame

Sleeping(c) == pc[c] \in {"sleepInterval", "sleepWindow"}

\* time passes; timers may fire late, never early
Tick ==
  /\ \/ now < MaxNow
     \/ \E c \in Callers : Sleeping(c) /\ wakeAt[c] > now
  /\ now' = now + TickMs
  /\ UNCHANGED <<lastRequestAt, recentRequests, queue, pc, wakeAt, outcome,
                 delivered, calledAt, grants>>
  /\ RLFrame

\* withRiotRateLimit(fn) of main.ts (and of the auto-linker module's own
\* factory): `await waitForRiotSlot(); return fn()` with no promise chain, so
\* the call itself runs waitForRiotSlot up to its first await; a caller whose
\* operation has settled may call again
CallUnqueued(c) ==
  /\ pc[c] \in {"idle", "settled"}
  /\ Len(grants) + Cardinality({d \in Callers : Sleeping(d)}) < MaxUnqueuedCalls
  /\ LET waitForInterval == IntervalWaitMs(lastRequestAt, now)
     IN IF waitForInterval > 0
          THEN /\ pc' = [pc EXCEPT ![c] = "sleepInterval"]
               /\ wakeAt' = [wakeAt EXCEPT ![c] = now + waitForInterval]
               /\ UNCHANGED <<lastRequestAt, recentRequests, grants>>
          ELSE EnterWindow(c)
  /\ UNCHANGED <<now, queue, outcome, delivered, calledAt>>
  /\ RLFrame

\* return fn(): the operation settles, however it settles
SettleUnqueued(c) ==
  /\ pc[c] = "running"
  /\ pc' = [pc EXCEPT ![c] = "settled"]
  /\ UNCHANGED <<now, lastRequestAt, recentRequests, queue, wakeAt, outcome,
                 delivered, calledAt, grants>>
  /\ RLFrame

(***************************************************************************)
(* VOD folder watcher (createVodWatcher)                                   *)
(***************************************************************************)
\* granularity of the timers' clock, in ms
WTickMs == 250
\* setTimeout callbacks the event loop can hold for the watcher
MaxTimers == 2
\* onRescan calls that can be in progress
MaxRescans == 2
\* the count of the events of a burst saturates here
MaxBurst == 2

pollIntervalMs == 15000
debounceMs == 1000
\* scheduleRescan(250) after a rescan that was asked for again
FollowUpMs == 250

TimerIds == 1..MaxTimers
RescanIds == 1..MaxRescans
NoPath == "null"
NoTimer == -1
NoTimeout == [left |-> -1, delay |-> -1]

InitW ==
  /\ watchPath = NoPath
  /\ watcher = FALSE
  /\ rescanTimer = 0
  /\ pollTimer = NoTimer
  /\ timeouts = [i \in TimerIds |-> NoTimeout]
  /\ rescanInFlight = FALSE
  /\ rescanQueued = FALSE
  /\ rescans = [r \in RescanIds |-> "free"]
  /\ sawTrigger = [r \in RescanIds |-> FALSE]
  /\ sinceEvent = debounceMs
  /\ burst = 0

PendingTimeouts(to) == {i \in TimerIds : to[i].left >= 0}
RunningRescans == {r \in RescanIds : rescans[r] = "running"}
Min(a, b) == IF a < b THEN a ELSE b
Max(a, b) == IF a > b THEN a ELSE b

\* the handle setTimeout returns: the first unused one (0: the model holds no more)
FreeId(to) ==
  IF \E i \in TimerIds : to[i].left < 0
    THEN CHOOSE i \in TimerIds : to[i].left < 0 /\ \A j \in TimerIds : to[j].left < 0 => i <= j
    ELSE 0

\* if (rescanTimer) clearTimeout(rescanTimer)
ClearTimeout(to, h) == IF h # 0 THEN [to EXCEPT ![h] = NoTimeout] ELSE to

SetTimeout(to, d) ==
  IF FreeId(to) = 0 THEN to ELSE [to EXCEPT ![FreeId(to)] = [left |-> d, delay |-> d]]

\* scheduleRescan(delayMs): the handle and the pending timeouts afterwards
ScheduleRescanStacking(wp, rt, to, d) ==
  IF wp = NoPath
    THEN [rescanTimer |-> rt, timeouts |-> to]
    ELSE [rescanTimer |-> FreeId(to), timeouts |-> SetTimeout(to, d)]
ScheduleRescanThrottle(wp, rt, to, d) ==
  IF wp = NoPath \/ rt # 0
    THEN [rescanTimer |-> rt, timeouts |-> to]
    ELSE [rescanTimer |-> FreeId(to), timeouts |-> SetTimeout(to, d)]
ScheduleRescan(wp, rt, to, d) ==
  IF wp = NoPath
    THEN [rescanTimer |-> rt, timeouts |-> to]
    ELSE LET cleared == ClearTimeout(to, rt)
         IN [rescanTimer |-> FreeId(cleared), timeouts |-> SetTimeout(cleared, d)]

\* stop(): close the watcher, cancel both timers, reset both flags; a running
\* onRescan is left running
StopLeavesTimer ==
  /\ watcher' = FALSE
  /\ watchPath' = NoPath
  /\ rescanTimer' = 0
  /\ pollTimer' = NoTimer
  /\ rescanInFlight' = FALSE
  /\ rescanQueued' = FALSE
  /\ burst' = 0
  /\ UNCHANGED <<timeouts, rescans, sawTrigger, sinceEvent>>
  /\ WFrame
StopKeepsPolling ==
  /\ watcher' = FALSE
  /\ watchPath' = NoPath
  /\ timeouts' = ClearTimeout(timeouts, rescanTimer)
  /\ rescanTimer' = 0
  /\ rescanInFlight' = FALSE
  /\ rescanQueued' = FALSE
  /\ burst' = 0
  /\ UNCHANGED <<pollTimer, rescans, sawTrigger, sinceEvent>>
  /\ WFrame
Stop ==
  /\ watcher' = FALSE
  /\ watchPath' = NoPath
  /\ timeouts' = ClearTimeout(timeouts, rescanTimer)
  /\ rescanTimer' = 0
  /\ pollTimer' = NoTimer
  /\ rescanInFlight' = FALSE
  /\ rescanQueued' = FALSE
  /\ burst' = 0
  /\ UNCHANGED <<rescans, sawTrigger, sinceEvent>>
  /\ WFrame

\* start(folderPath) with an empty path or a folder that does not exist: stop() only
StartNoFolder ==
  /\ watcher' = FALSE
  /\ watchPath' = NoPath
  /\ timeouts' = ClearTimeout(timeouts, rescanTimer)
  /\ rescanTimer' = 0
  /\ pollTimer' = NoTimer
  /\ rescanInFlight' = FALSE
  /\ rescanQueued' = FALSE
  /\ burst' = 0
  /\ UNCHANGED <<rescans, sawTrigger, sinceEvent>>
  /\ WFrame

\* start(folderPath) with a folder that exists: stop(), then watch (fs.watch may
\* throw: poll-only), arm the poll interval and schedule the initial rescan
Start(p, watchOk) ==
  /\ p # ""
  /\ LET s == ScheduleRescan(p, 0, ClearTimeout(timeouts, rescanTimer), 0)
     IN /\ rescanTimer' = s.rescanTimer
        /\ timeouts' = s.timeouts
  /\ watchPath' = p
  /\ watcher' = watchOk
  /\ pollTimer' = pollIntervalMs
  /\ rescanInFlight' = FALSE
  /\ rescanQueued' = FALSE
  /\ burst' = 0
  /\ UNCHANGED <<rescans, sawTrigger, sinceEvent>>
  /\ WFrame

\* the fs.watch callback: scheduleRescan(debounceMs)
FsEvent ==
  /\ watcher
  /\ LET s == ScheduleRescan(watchPath, rescanTimer, timeouts, debounceMs)
     IN /\ rescanTimer' = s.rescanTimer
        /\ timeouts' = s.timeouts
  /\ sinceEvent' = 0
  /\ burst' = Min(MaxBurst, burst + 1)
  /\ UNCHANGED <<watchPath, watcher, pollTimer, rescanInFlight, rescanQueued, rescans, sawTrigger>>
  /\ WFrame

\* the poll interval fires: scheduleRescan(0)
PollTick ==
  /\ pollTimer = 0
  /\ pollTimer' = pollIntervalMs
  /\ LET s == ScheduleRescan(watchPath, rescanTimer, timeouts, 0)
     IN /\ rescanTimer' = s.rescanTimer
        /\ timeouts' = s.timeouts
  /\ UNCHANGED <<watchPath, watcher, rescanInFlight, rescanQueued, rescans, sawTrigger,
                 sinceEvent, burst>>
  /\ WFrame

\* a timeout fires: rescanTimer = null; rescanAndMaybeQueue() up to its await
TimerFire(id) ==
  /\ timeouts[id].left = 0
  /\ timeouts' = [timeouts EXCEPT ![id] = NoTimeout]
  /\ rescanTimer' = 0
  /\ IF watchPath = NoPath
       THEN UNCHANGED <<rescanInFlight, rescanQueued, rescans, sawTrigger, burst>>
       ELSE IF rescanInFlight
         THEN /\ rescanQueued' = TRUE
              /\ sawTrigger' = [r \in RescanIds |-> sawTrigger[r] \/ rescans[r] = "running"]
              /\ UNCHANGED <<rescanInFlight, rescans, burst>>
         ELSE /\ RunningRescans # RescanIds
              /\ rescanInFlight' = TRUE
              /\ LET r == CHOOSE r \in RescanIds : rescans[r] = "free"
                 IN /\ rescans' = [rescans EXCEPT ![r] = "running"]
                    /\ sawTrigger' = [sawTrigger EXCEPT ![r] = FALSE]
              /\ burst' = 0
              /\ UNCHANGED rescanQueued
  /\ UNCHANGED <<watchPath, watcher, pollTimer, sinceEvent>>
  /\ WFrame

\* onRescan settles (fulfilled or rejected): the finally block of rescanAndMaybeQueue
RescanCompleteKeepsFlag(r) ==
  /\ rescans[r] = "running"
  /\ rescans' = [rescans EXCEPT ![r] = "free"]
  /\ sawTrigger' = [sawTrigger EXCEPT ![r] = FALSE]
  /\ rescanInFlight' = FALSE
  /\ IF rescanQueued
       THEN LET s == ScheduleRescan(watchPath, rescanTimer, timeouts, FollowUpMs)
            IN /\ rescanTimer' = s.rescanTimer
               /\ timeouts' = s.timeouts
       ELSE UNCHANGED <<rescanTimer, timeouts>>
  /\ UNCHANGED <<rescanQueued, watchPath, watcher, pollTimer, sinceEvent, burst>>
  /\ WFrame
RescanComplete(r) ==
  /\ rescans[r] = "running"
  /\ rescans' = [rescans EXCEPT ![r] = "free"]
  /\ sawTrigger' = [sawTrigger EXCEPT ![r] = FALSE]
  /\ rescanInFlight' = FALSE
  /\ IF rescanQueued
       THEN /\ rescanQueued' = FALSE
            /\ LET s == ScheduleRescan(watchPath, rescanTimer, timeouts, FollowUpMs)
               IN /\ rescanTimer' = s.rescanTimer
                  /\ timeouts' = s.timeouts
       ELSE UNCHANGED <<rescanQueued, rescanTimer, timeouts>>
  /\ UNCHANGED <<watchPath, watcher, pollTimer, sinceEvent, burst>>
  /\ WFrame

\* time passes: every pending timer comes WTickMs closer; a due timer may fire late
WTick ==
  /\ timeouts' = [i \in TimerIds |->
                    IF timeouts[i].left < 0 THEN timeouts[i]
                    ELSE [timeouts[i] EXCEPT !.left = Max(0, @ - WTickMs)]]
  /\ pollTimer' = IF pollTimer = NoTimer THEN NoTimer ELSE Max(0, pollTimer - WTickMs)
  /\ sinceEvent' = Min(debounceMs, sinceEvent + WTickMs)
  /\ UNCHANGED <<watchPath, watcher, rescanTimer, rescanInFlight, rescanQueued, rescans,
                 sawTrigger, burst>>
  /\ WFrame

(***************************************************************************)
(* Auto-linker (createAutoLinker), the rows of the vods table it writes    *)
(* and the IPC handlers that call it                                        *)
(***************************************************************************)
\* recordings in the library
NVods == 2
\* autoLinkVod calls that can be suspended at an await at the same time
MaxAttempts == 2
\* autoLinkAllUnlinked calls that can be past the in-flight guard
MaxPasses == 2
\* IPC requests (and rescans of the watcher) the model lets the user make
MaxRequests == 2

ALLOW_EARLY_MS == 60000
MAX_MATCH_DETAILS == 6
\* scoreCandidates / forced ranking: slice(0, 5)
MaxCandidates == 5
\* scheduleAutoLink(500) after a pass that was asked for again
QueuedFollowUpMs == 500
\* scheduleAutoLink(250) of the scan-vods and set-setting handlers
IpcFollowUpMs == 250
LinkTightMs == 3 * 60000
LinkWideMs == 10 * 60000
LinkSeparationMs == 5 * 60000

Vods == 1..NVods
AttemptIds == 1..MaxAttempts
PassIds == 1..MaxPasses
NoMatch == "null"
NoError == "null"
NoConfidence == -1

\* the recordings' file times: every recording is created a second after the
\* one before it; the even ones were modified after their creation
BaseMs == 6000000
createdAt(v) == BaseMs + (v - 1) * 1000
modifiedAt(v) == IF v % 2 = 1 THEN createdAt(v) ELSE BaseMs + 200000
AnchorTimes == {createdAt(v) : v \in Vods} \cup {modifiedAt(v) : v \in Vods}

\* the matches the remote API knows, with their start times, and the lists
\* of ids it can answer a window query with
MatchIds == {"m1", "m2", "m3"}
matchStartMs(m) ==
  CASE m = "m1" -> BaseMs + 90000
    [] m = "m2" -> BaseMs + 240000
    [] m = "m3" -> BaseMs + 270000
    [] m = "m4" -> BaseMs + 600000
    [] m = "m5" -> BaseMs - 30000
    [] m = "m7" -> BaseMs - 120000
    [] OTHER -> BaseMs + 900000
IdLists == {<<>>, <<"m1">>, <<"m2", "m3">>}
Candidate(m) == [matchStartMs |-> matchStartMs(m), matchId |-> m]

NullRow ==
  [matchId |-> NoMatch, status |-> "none", confidenceMs |-> NoConfidence,
   candidates |-> <<>>, error |-> NoError]
FreeAttempt ==
  [pc |-> "free", vod |-> 0, force |-> FALSE, pass |-> 0, anchors |-> <<>>,
   ids |-> <<>>, idx |-> 0, cands |-> <<>>, linkId |-> NoMatch]
FreePass == [running |-> FALSE, todo |-> <<>>]
NoCall == [vod |-> 0, force |-> FALSE]
NoPicker == [pc |-> "idle", vod |-> 0, todo |-> <<>>, results |-> <<>>, returned |-> <<>>]
NoFailure == [vod |-> 0, pass |-> 0, at |-> "none", untried |-> 0]
EmptyIdsCache == [k \in AnchorTimes |-> <<>>]

InitL ==
  /\ db = [v \in Vods |-> NullRow]
  /\ configured \in BOOLEAN
  /\ autoLinkTimer = 0
  /\ linkTimeouts = [i \in TimerIds |-> -1]
  /\ autoLinkInFlight = FALSE
  /\ autoLinkQueued = FALSE
  /\ matchIdsCache = EmptyIdsCache
  /\ matchTimeCache = {}
  /\ matchMetadata = {}
  /\ passes = [p \in PassIds |-> FreePass]
  /\ attempts = [a \in AttemptIds |-> FreeAttempt]
  /\ lastWrites = <<>>
  /\ requests = 0
  /\ lastCall = NoCall
  /\ lastNotified = 0
  /\ lastSlots = 0
  /\ lastFailure = NoFailure
  /\ sweepEntries = {}
  /\ picker = NoPicker

Take(s, n) == SubSeq(s, 1, Min(Len(s), n))

\* ---- database.ts ----
\* linkMatch: match_id, status 'linked', error NULL; nothing else
linkMatch(row, m) == [row EXCEPT !.matchId = m, !.status = "linked", !.error = NoError]
\* unlinkMatch: every link column back to NULL
unlinkMatchKeepsCandidates(row) == [row EXCEPT !.matchId = NoMatch, !.status = "none"]
unlinkMatch(row) == NullRow
\* setVodLinkStatus: status, confidence, candidates, error; never match_id
setVodLinkStatus(row, st, conf, cands, err) ==
  [row EXCEPT !.status = st, !.confidenceMs = conf, !.candidates = cands, !.error = err]
\* listUnlinkedVods: WHERE match_id IS NULL ORDER BY created_at DESC
RECURSIVE UnlinkedFrom(_, _)
UnlinkedFrom(d, v) ==
  IF v = 0 THEN <<>>
  ELSE (IF d[v].matchId = NoMatch THEN <<v>> ELSE <<>>) \o UnlinkedFrom(d, v - 1)
listUnlinkedVods(d) == UnlinkedFrom(d, NVods)

\* ---- scoreCandidates ----
\* Array.prototype.sort on a numeric key: stable insertion
RECURSIVE InsertByKey(_, _)
InsertByKey(x, s) ==
  IF s = <<>> THEN <<x>>
  ELSE IF s[Len(s)].key <= x.key THEN Append(s, x)
  ELSE Append(InsertByKey(x, SubSeq(s, 1, Len(s) - 1)), s[Len(s)])
SortByKeyUnsorted(s) == s
RECURSIVE SortByKey(_)
SortByKey(s) ==
  IF s = <<>> THEN <<>>
  ELSE InsertByKey(s[Len(s)], SortByKey(SubSeq(s, 1, Len(s) - 1)))
NotTooEarlyUnfiltered(c) == TRUE
NotTooEarly(c) == c.delta >= -ALLOW_EARLY_MS
MatchIdsOf(s) == [i \in 1..Len(s) |-> s[i].matchId]

\* signedDeltaStart / signedDeltaMs of every candidate
WithDelta(vodTimeMs, candidates) ==
  [i \in 1..Len(candidates) |->
     [matchId |-> candidates[i].matchId,
      delta |-> candidates[i].matchStartMs - vodTimeMs]]
Scored(vodTimeMs, candidates) ==
  LET kept == SelectSeq(WithDelta(vodTimeMs, candidates), NotTooEarly)
  IN SortByKey([i \in 1..Len(kept) |->
                  [matchId |-> kept[i].matchId,
                   key |-> Max(0, kept[i].delta),
                   score |-> Max(0, kept[i].delta)]])

NotFoundDecision ==
  [matchId |-> NoMatch, status |-> "not_found", confidenceMs |-> NoConfidence,
   candidates |-> <<>>]
scoreCandidatesRemembering(vodTimeMs, candidates) ==
  IF probe.op = "scoreCandidates" THEN NotFoundDecision
  ELSE [matchId |-> NoMatch, status |-> "linked", confidenceMs |-> 0, candidates |-> <<>>]
scoreCandidates(vodTimeMs, candidates) ==
  LET scored == Scored(vodTimeMs, candidates) IN
  IF candidates = <<>> \/ scored = <<>> THEN NotFoundDecision
  ELSE LET best == scored[1] IN
    IF best.score <= LinkTightMs
      THEN [matchId |-> best.matchId, status |-> "linked", confidenceMs |-> best.score,
            candidates |-> <<>>]
    ELSE IF /\ best.score <= LinkWideMs
            /\ Len(scored) >= 2
            /\ scored[2].score - best.score >= LinkSeparationMs
      THEN [matchId |-> best.matchId, status |-> "linked", confidenceMs |-> best.score,
            candidates |-> <<>>]
    ELSE [matchId |-> NoMatch, status |-> "ambiguous",
          confidenceMs |-> best.score,
          candidates |-> MatchIdsOf(Take(scored, MaxCandidates))]

\* force mode: candidates not too early, by signed delta
Ranked(vodTimeMs, candidates) ==
  LET kept == SelectSeq(WithDelta(vodTimeMs, candidates), NotTooEarly)
  IN SortByKey([i \in 1..Len(kept) |->
                  [matchId |-> kept[i].matchId,
                   key |-> kept[i].delta,
                   signedDeltaMs |-> kept[i].delta]])

\* ---- scheduleAutoLink ----
PendingLinkTimeouts(to) == {i \in TimerIds : to[i] >= 0}
\* the handle setTimeout returns: the first unused one (0: the model holds no more)
FreeLinkTimer(to) ==
  IF \E i \in TimerIds : to[i] < 0
    THEN CHOOSE i \in TimerIds : to[i] < 0 /\ \A j \in TimerIds : to[j] < 0 => i <= j
    ELSE 0
SetLinkTimeout(to, d) ==
  IF FreeLinkTimer(to) = 0 THEN to ELSE [to EXCEPT ![FreeLinkTimer(to)] = d]
ScheduleAutoLinkStacking(t, to, d) ==
  [autoLinkTimer |-> FreeLinkTimer(to), linkTimeouts |-> SetLinkTimeout(to, d)]
\* scheduleAutoLink(delayMs): the handle and the pending timeouts afterwards
ScheduleAutoLink(t, to, d) ==
  LET cleared == IF t # 0 THEN [to EXCEPT ![t] = -1] ELSE to
  IN [autoLinkTimer |-> FreeLinkTimer(cleared), linkTimeouts |-> SetLinkTimeout(cleared, d)]

\* ---- autoLinkVod ----
\* What one synchronous stretch of autoLinkVod works on: the call (a), the
\* recording's row, the caches, and the writes of the row's status so far.
Written(M, row, by) ==
  [M EXCEPT !.row = row,
            !.log = Append(@, [to |-> row.status, by |-> by, from |-> M.row.status])]
\* params.notifyVodsUpdated()
Notified(M) == [M EXCEPT !.notes = @ + 1]
\* params.withRiotRateLimit(...) is called and awaited
Awaiting(M, at) == [M EXCEPT !.slots = @ + 1, !.a = [@ EXCEPT !.pc = at]]
\* return before the try block: the call is over
Returned(M) == [M EXCEPT !.a = [@ EXCEPT !.pc = "done"]]
\* return / end of the try block: finally notifies, the call is over
Done(M) == Returned(Notified(M))
NextAnchorGivesUp(M) ==
  [M EXCEPT !.a = [@ EXCEPT !.pc = "anchor", !.anchors = <<>>, !.ids = <<>>,
                            !.idx = 0, !.cands = <<>>]]
\* continue: on to the next vodTime of vodTimesToTry
NextAnchor(M) ==
  [M EXCEPT !.a = [@ EXCEPT !.pc = "anchor", !.anchors = Tail(@), !.ids = <<>>,
                            !.idx = 0, !.cands = <<>>]]

\* the ids of the window are known (from the cache or from the remote call)
GotIdsUnsliced(M, matchIds) ==
  LET M1 == [M EXCEPT !.idsCache = [@ EXCEPT ![Head(M.a.anchors)] = <<matchIds>>]] IN
  IF matchIds = <<>> THEN NextAnchor(M1)
  ELSE [M1 EXCEPT !.a = [@ EXCEPT !.pc = "details", !.ids = matchIds,
                                  !.idx = 1, !.cands = <<>>]]
GotIds(M, matchIds) ==
  LET M1 == [M EXCEPT !.idsCache = [@ EXCEPT ![Head(M.a.anchors)] = <<matchIds>>]] IN
  IF matchIds = <<>> THEN NextAnchor(M1)
  ELSE [M1 EXCEPT !.a = [@ EXCEPT !.pc = "details",
                                  !.ids = Take(matchIds, MAX_MATCH_DETAILS),
                                  !.idx = 1, !.cands = <<>>]]

\* all details of the window are in: the decision for this vodTime
DecideIgnoringForce(M) ==
  LET vodTimeMs == Head(M.a.anchors)
      decision == scoreCandidates(vodTimeMs, M.a.cands)
  IN CASE decision.status = "linked" ->
            LET M1 == Written(M, linkMatch(M.row, decision.matchId), "linkMatch")
                M2 == Written(M1, setVodLinkStatus(M1.row, "linked", decision.confidenceMs,
                                                   <<>>, NoError), "setVodLinkStatus")
            IN Awaiting([M2 EXCEPT !.a = [@ EXCEPT !.linkId = decision.matchId]], "meta")
       [] decision.status = "ambiguous" ->
            Done(Written(M, setVodLinkStatus(M.row, "ambiguous", decision.confidenceMs,
                                             decision.candidates, NoError),
                         "setVodLinkStatus"))
       [] OTHER -> NextAnchor(M)
Decide(M) ==
  LET vodTimeMs == Head(M.a.anchors) IN
  IF M.a.force
    THEN LET ranked == Ranked(vodTimeMs, M.a.cands) IN
         IF ranked # <<>>
           THEN Done(Written(M, setVodLinkStatus(M.row, "ambiguous",
                                                 Max(0, ranked[1].signedDeltaMs),
                                                 MatchIdsOf(Take(ranked, MaxCandidates)),
                                                 NoError),
                             "setVodLinkStatus"))
           ELSE NextAnchor(M)
    ELSE DecideIgnoringForce(M)

\* run to the next await (pc listIds, fetch, meta) or to the end (pc done)
RECURSIVE Run(_)
Run(M) ==
  CASE M.a.pc = "anchor" ->
         IF M.a.anchors = <<>>
           THEN Done(Written(M, setVodLinkStatus(M.row, "not_found", NoConfidence, <<>>,
                                                 NoError), "setVodLinkStatus"))
           ELSE IF M.idsCache[Head(M.a.anchors)] # <<>>
             THEN Run(GotIds(M, M.idsCache[Head(M.a.anchors)][1]))
             ELSE Awaiting(M, "listIds")
    [] M.a.pc = "details" ->
         IF M.a.idx > Len(M.a.ids) THEN Run(Decide(M))
         ELSE LET m == M.a.ids[M.a.idx] IN
              IF m \in M.timeCache \/ m \in M.meta
                THEN Run([M EXCEPT !.timeCache = @ \cup {m},
                                   !.a = [@ EXCEPT !.cands = Append(@, Candidate(m)),
                                                   !.idx = @ + 1]])
                ELSE Awaiting(M, "fetch")
    [] OTHER -> M

\* catch: the error state, then finally
CaughtTriesNextAnchor(M) == Run(NextAnchor(M))
CaughtWritesNothing(M) == Done(M)
Caught(M) ==
  Done(Written(M, setVodLinkStatus(M.row, "error", NoConfidence, <<>>, "remote"),
               "setVodLinkStatus"))

\* autoLinkVod from its first line to its first await (or its early return)
EnterKeepsMatch(M, cfg) ==
  IF ~M.a.force /\ (M.row.status = "linking" \/ M.row.matchId # NoMatch) THEN Returned(M)
  ELSE IF ~cfg
    THEN Done(Written(M, setVodLinkStatus(M.row, "not_found", NoConfidence, <<>>, "config"),
                      "setVodLinkStatus"))
    ELSE [Notified(Written(M, setVodLinkStatus(M.row, "linking", NoConfidence, <<>>, NoError),
                           "setVodLinkStatus"))
            EXCEPT !.a = [@ EXCEPT !.pc = "import"]]
EnterUnguarded(M, cfg) ==
  LET M1 == IF M.row.matchId # NoMatch
              THEN Written(M, unlinkMatch(M.row), "unlinkMatch") ELSE M
  IN IF ~cfg
       THEN Done(Written(M1, setVodLinkStatus(M1.row, "not_found", NoConfidence, <<>>,
                                              "config"), "setVodLinkStatus"))
       ELSE [Notified(Written(M1, setVodLinkStatus(M1.row, "linking", NoConfidence,
                                                   <<>>, NoError), "setVodLinkStatus"))
               EXCEPT !.a = [@ EXCEPT !.pc = "import"]]
EnterConfigIsError(M, cfg) ==
  IF ~M.a.force /\ (M.row.status = "linking" \/ M.row.matchId # NoMatch) THEN Returned(M)
  ELSE LET M1 == IF M.row.matchId # NoMatch
                   THEN Written(M, unlinkMatch(M.row), "unlinkMatch") ELSE M
       IN IF ~cfg
            THEN Done(Written(M1, setVodLinkStatus(M1.row, "error", NoConfidence, <<>>,
                                                   "config"), "setVodLinkStatus"))
            ELSE [Notified(Written(M1, setVodLinkStatus(M1.row, "linking", NoConfidence,
                                                        <<>>, NoError), "setVodLinkStatus"))
                    EXCEPT !.a = [@ EXCEPT !.pc = "import"]]
\* the copy of autoLinkVod in main.ts, up to its first await: no guard on
\* linking, and no notification before the finally of its try block
EnterMain(M, cfg) ==
  IF ~M.a.force /\ M.row.matchId # NoMatch THEN Returned(M)
  ELSE LET M1 == IF M.row.matchId # NoMatch
                   THEN Written(M, unlinkMatch(M.row), "unlinkMatch") ELSE M
       IN IF ~cfg
            THEN Returned(Written(M1, setVodLinkStatus(M1.row, "not_found", NoConfidence,
                                                       <<>>, "config"), "setVodLinkStatus"))
            ELSE [Written(M1, setVodLinkStatus(M1.row, "linking", NoConfidence,
                                               <<>>, NoError), "setVodLinkStatus")
                    EXCEPT !.a = [@ EXCEPT !.pc = "import"]]
\* autoLinkVod of the auto-linker service, up to its first await
Enter(M, cfg) ==
  IF ~M.a.force /\ (M.row.status = "linking" \/ M.row.matchId # NoMatch) THEN Returned(M)
  ELSE LET M1 == IF M.row.matchId # NoMatch
                   THEN Written(M, unlinkMatch(M.row), "unlinkMatch") ELSE M
       IN IF ~cfg
            THEN Done(Written(M1, setVodLinkStatus(M1.row, "not_found", NoConfidence, <<>>,
                                                   "config"), "setVodLinkStatus"))
            ELSE [Notified(Written(M1, setVodLinkStatus(M1.row, "linking", NoConfidence,
                                                        <<>>, NoError), "setVodLinkStatus"))
                    EXCEPT !.a = [@ EXCEPT !.pc = "import"]]

vodTimesToTry(v) ==
  <<createdAt(v)>> \o (IF modifiedAt(v) # createdAt(v) THEN <<modifiedAt(v)>> ELSE <<>>)
NewAttempt(v, force, p) ==
  [FreeAttempt EXCEPT !.pc = "enter", !.vod = v, !.force = force, !.pass = p,
                      !.anchors = vodTimesToTry(v)]
\* the state a stretch of the call a starts from
Machine(a) ==
  [a |-> a, row |-> db[a.vod], log |-> <<>>, idsCache |-> matchIdsCache,
   timeCache |-> matchTimeCache, meta |-> matchMetadata, notes |-> 0, slots |-> 0]
FreeSlot ==
  IF \E i \in AttemptIds : attempts[i].pc = "free"
    THEN CHOOSE i \in AttemptIds :
           attempts[i].pc = "free" /\ \A j \in AttemptIds : attempts[j].pc = "free" => i <= j
    ELSE 0
\* the stretch is over: its effects on the row, the caches and the call
Commit(slot, M) ==
  /\ db' = [db EXCEPT ![M.a.vod] = M.row]
  /\ matchIdsCache' = M.idsCache
  /\ matchTimeCache' = M.timeCache
  /\ matchMetadata' = M.meta
  /\ attempts' = [attempts EXCEPT ![slot] = IF M.a.pc = "done" THEN FreeAttempt ELSE M.a]
  /\ lastWrites' = M.log
  /\ lastNotified' = M.notes
  /\ lastSlots' = M.slots
  /\ sweepEntries' = sweepEntries \cup
       (IF autoLinkInFlight
          THEN {k \in AnchorTimes : M.idsCache[k] # matchIdsCache[k]} ELSE {})

\* a step that calls neither autoLinkVod, notifyVodsUpdated nor withRiotRateLimit
NoEffects ==
  lastCall' = NoCall /\ lastNotified' = 0 /\ lastSlots' = 0 /\ lastFailure' = NoFailure
\* the remote call the attempt in slot a awaits rejects
Failure(a) ==
  [vod |-> attempts[a].vod, pass |-> attempts[a].pass,
   at |-> attempts[a].pc, untried |-> Len(attempts[a].anchors) - 1]

\* the user (or the watcher) asks for something
Request ==
  /\ requests < MaxRequests
  /\ requests' = requests + 1

\* IPC auto-link-vod: autoLinkVod(vodId, opts)
LinkOne(v, force) ==
  /\ Request
  /\ FreeSlot # 0
  /\ Commit(FreeSlot, Enter(Machine(NewAttempt(v, force, 0)), configured))
  /\ lastCall' = [vod |-> v, force |-> force]
  /\ lastFailure' = NoFailure
  /\ UNCHANGED <<configured, autoLinkTimer, linkTimeouts, autoLinkInFlight,
                 autoLinkQueued, passes>>
  /\ LFrame

\* await import('../riot-api.js') resolves
ImportDone(a) ==
  /\ UNCHANGED requests
  /\ lastCall' = NoCall
  /\ lastFailure' = NoFailure
  /\ attempts[a].pc = "import"
  /\ Commit(a, Run(Machine([attempts[a] EXCEPT !.pc = "anchor"])))
  /\ UNCHANGED <<configured, autoLinkTimer, linkTimeouts, autoLinkInFlight,
                 autoLinkQueued, passes>>
  /\ LFrame

\* listTftMatchIdsByPuuid resolves with a list of ids
ListIdsResolve(a, matchIds) ==
  /\ UNCHANGED requests
  /\ lastCall' = NoCall
  /\ lastFailure' = NoFailure
  /\ attempts[a].pc = "listIds"
  /\ Commit(a, Run(GotIds(Machine(attempts[a]), matchIds)))
  /\ UNCHANGED <<configured, autoLinkTimer, linkTimeouts, autoLinkInFlight,
                 autoLinkQueued, passes>>
  /\ LFrame

\* fetchTftMatch resolves: with game_datetime and game_length (usable) or without
FetchResolve(a, usable) ==
  /\ UNCHANGED requests
  /\ lastCall' = NoCall
  /\ lastFailure' = NoFailure
  /\ attempts[a].pc = "fetch"
  /\ LET M == Machine(attempts[a])
         m == M.a.ids[M.a.idx]
         M1 == IF usable
                 THEN [M EXCEPT !.timeCache = @ \cup {m}, !.meta = @ \cup {m},
                                !.a = [@ EXCEPT !.pc = "details",
                                                !.cands = Append(@, Candidate(m)),
                                                !.idx = @ + 1]]
                 ELSE [M EXCEPT !.a = [@ EXCEPT !.pc = "details", !.idx = @ + 1]]
     IN Commit(a, Run(M1))
  /\ UNCHANGED <<configured, autoLinkTimer, linkTimeouts, autoLinkInFlight,
                 autoLinkQueued, passes>>
  /\ LFrame

\* a remote call of the discovery rejects (or the rate limiter passes a failure on)
RemoteReject(a) ==
  /\ UNCHANGED requests
  /\ lastCall' = NoCall
  /\ lastFailure' = Failure(a)
  /\ attempts[a].pc \in {"listIds", "fetch"}
  /\ Commit(a, Caught(Machine(attempts[a])))
  /\ UNCHANGED <<configured, autoLinkTimer, linkTimeouts, autoLinkInFlight,
                 autoLinkQueued, passes>>
  /\ LFrame

\* fetchMatchMetadata after linking settles: saved, or failed and only logged
MetadataSettle(a, ok) ==
  /\ UNCHANGED requests
  /\ lastCall' = NoCall
  /\ lastFailure' = (IF ok THEN NoFailure ELSE Failure(a))
  /\ attempts[a].pc = "meta"
  /\ LET M == Machine(attempts[a])
     IN Commit(a, Done(IF ok THEN [M EXCEPT !.meta = @ \cup {M.a.linkId}] ELSE M))
  /\ UNCHANGED <<configured, autoLinkTimer, linkTimeouts, autoLinkInFlight,
                 autoLinkQueued, passes>>
  /\ LFrame

\* IPC link-match: db.linkMatch(vodId, matchId)
LinkMatchIpc(v, m) ==
  /\ Request
  /\ db' = [db EXCEPT ![v] = linkMatch(db[v], m)]
  /\ lastWrites' = <<[to |-> "linked", by |-> "link-match", from |-> db[v].status]>>
  /\ NoEffects
  /\ UNCHANGED <<configured, autoLinkTimer, linkTimeouts, autoLinkInFlight,
                 autoLinkQueued, matchIdsCache, matchTimeCache, matchMetadata,
                 passes, attempts>>
  /\ UNCHANGED sweepEntries
  /\ LFrame

\* IPC auto-link-all (0); the end of IPC scan-vods and of the watcher's rescan
\* (250), which send 'vods-updated' before they schedule the pass
ScheduleIpc(d) ==
  /\ Request
  /\ LET s == ScheduleAutoLink(autoLinkTimer, linkTimeouts, d)
     IN autoLinkTimer' = s.autoLinkTimer /\ linkTimeouts' = s.linkTimeouts
  /\ lastWrites' = <<>>
  /\ lastCall' = NoCall /\ lastSlots' = 0 /\ lastFailure' = NoFailure
  /\ lastNotified' = (IF d = IpcFollowUpMs THEN 1 ELSE 0)
  /\ UNCHANGED <<db, configured, autoLinkInFlight, autoLinkQueued, matchIdsCache,
                 matchTimeCache, matchMetadata, passes, attempts>>
  /\ UNCHANGED sweepEntries
  /\ LFrame

\* IPC set-setting of a riot_ key: the credentials appear or go, scheduleAutoLink(250)
SetSetting(cfg) ==
  /\ Request
  /\ cfg # configured
  /\ configured' = cfg
  /\ LET s == ScheduleAutoLink(autoLinkTimer, linkTimeouts, IpcFollowUpMs)
     IN autoLinkTimer' = s.autoLinkTimer /\ linkTimeouts' = s.linkTimeouts
  /\ lastWrites' = <<>>
  /\ NoEffects
  /\ UNCHANGED <<db, autoLinkInFlight, autoLinkQueued, matchIdsCache,
                 matchTimeCache, matchMetadata, passes, attempts>>
  /\ UNCHANGED sweepEntries
  /\ LFrame

\* ---- IPC get-vod-link-candidates ----
\* a step of the handler: no row, cache, timer, pass or autoLinkVod call changes
PickerFrame ==
  /\ lastWrites' = <<>>
  /\ lastCall' = NoCall /\ lastNotified' = 0 /\ lastFailure' = NoFailure
  /\ UNCHANGED <<db, configured, autoLinkTimer, linkTimeouts, autoLinkInFlight,
                 autoLinkQueued, matchIdsCache, matchTimeCache, matchMetadata,
                 passes, attempts, sweepEntries>>
  /\ UNCHANGED <<rlVars, wVars, probe>>
PickerFrameWritingError ==
  /\ db' = [db EXCEPT ![picker.vod] =
              setVodLinkStatus(@, "error", NoConfidence, <<>>, "remote")]
  /\ lastWrites' = <<[to |-> "error", by |-> "setVodLinkStatus", from |-> db[picker.vod].status]>>
  /\ lastCall' = NoCall /\ lastNotified' = 0 /\ lastFailure' = NoFailure
  /\ UNCHANGED <<configured, autoLinkTimer, linkTimeouts, autoLinkInFlight,
                 autoLinkQueued, matchIdsCache, matchTimeCache, matchMetadata,
                 passes, attempts, sweepEntries>>
  /\ UNCHANGED <<rlVars, wVars, probe>>

\* the handler from its first line to `await import` (or to `return []`)
PickerStart(v) ==
  /\ Request
  /\ picker.pc = "idle"
  /\ picker' =
       IF db[v].candidates = <<>> \/ ~configured
         THEN [NoPicker EXCEPT !.vod = v]
         ELSE [NoPicker EXCEPT !.pc = "import", !.vod = v,
                               !.todo = Take(db[v].candidates, MaxCandidates)]
  /\ lastSlots' = 0
  /\ PickerFrame

\* the import resolves: the first withRiotRateLimit(fetchTftMatch) is awaited
PickerImportDone ==
  /\ UNCHANGED requests
  /\ picker.pc = "import"
  /\ picker' = [picker EXCEPT !.pc = "fetch"]
  /\ lastSlots' = 1
  /\ PickerFrame

\* what the loop body pushes for a match whose detail arrived
PickerRow(v, m) ==
  [matchId |-> m,
   key |-> Max(0, matchStartMs(m) - createdAt(v)),
   deltaMs |-> Max(0, matchStartMs(m) - createdAt(v))]
\* the fetch of the next candidate settles: "ok", "unusable" (no times in the
\* answer) or "rejected" (caught, skipped); then the next fetch or the
\* return of the sorted results
PickerFetchSettleMarksError(how) ==
  /\ UNCHANGED requests
  /\ picker.pc = "fetch"
  /\ LET m == Head(picker.todo)
         results ==
           IF how = "ok" /\ matchStartMs(m) - createdAt(picker.vod) >= -ALLOW_EARLY_MS
             THEN Append(picker.results, PickerRow(picker.vod, m))
             ELSE picker.results
     IN IF Tail(picker.todo) = <<>>
          THEN /\ picker' = [NoPicker EXCEPT !.vod = picker.vod,
                                             !.returned = SortByKey(results)]
               /\ lastSlots' = 0
          ELSE /\ picker' = [picker EXCEPT !.todo = Tail(@), !.results = results]
               /\ lastSlots' = 1
  /\ IF how = "rejected" THEN PickerFrameWritingError ELSE PickerFrame
PickerFetchSettle(how) ==
  /\ UNCHANGED requests
  /\ picker.pc = "fetch"
  /\ LET m == Head(picker.todo)
         results ==
           IF how = "ok" /\ matchStartMs(m) - createdAt(picker.vod) >= -ALLOW_EARLY_MS
             THEN Append(picker.results, PickerRow(picker.vod, m))
             ELSE picker.results
     IN IF Tail(picker.todo) = <<>>
          THEN /\ picker' = [NoPicker EXCEPT !.vod = picker.vod,
                                             !.returned = SortByKey(results)]
               /\ lastSlots' = 0
          ELSE /\ picker' = [picker EXCEPT !.todo = Tail(@), !.results = results]
               /\ lastSlots' = 1
  /\ PickerFrame

\* ---- autoLinkAllUnlinked ----
RunningPasses == {p \in PassIds : passes[p].running}
FreePassId ==
  IF \E p \in PassIds : ~passes[p].running
    THEN CHOOSE p \in PassIds : ~passes[p].running /\ \A q \in PassIds : ~passes[q].running => p <= q
    ELSE 0
\* the guard at the top of autoLinkAllUnlinked
MayStartPassUnguarded(inFlight) == TRUE
MayStartPass(inFlight) == ~inFlight

\* the timer of scheduleAutoLink fires: autoLinkAllUnlinked up to its loop
AutoLinkTimerFire(id) ==
  /\ UNCHANGED requests
  /\ linkTimeouts[id] >= 0
  /\ linkTimeouts' = [linkTimeouts EXCEPT ![id] = -1]
  /\ autoLinkTimer' = 0
  /\ lastWrites' = <<>>
  /\ NoEffects
  /\ IF MayStartPass(autoLinkInFlight)
       THEN /\ FreePassId # 0
            /\ autoLinkInFlight' = TRUE
            /\ matchIdsCache' = EmptyIdsCache
            /\ matchTimeCache' = {}
            /\ sweepEntries' = {}
            /\ passes' = [passes EXCEPT ![FreePassId] =
                            [running |-> TRUE, todo |-> listUnlinkedVods(db)]]
            /\ UNCHANGED autoLinkQueued
       ELSE /\ autoLinkQueued' = TRUE
            /\ UNCHANGED <<autoLinkInFlight, matchIdsCache, matchTimeCache, passes,
                           sweepEntries>>
  /\ UNCHANGED <<db, configured, matchMetadata, attempts>>
  /\ LFrame

PassIdle(p) == passes[p].running /\ \A a \in AttemptIds : attempts[a].pass # p

\* the loop of the pass: await autoLinkVod(vod.id) for the next recording
PassNext(p) ==
  /\ UNCHANGED requests
  /\ PassIdle(p)
  /\ passes[p].todo # <<>>
  /\ FreeSlot # 0
  /\ Commit(FreeSlot, Enter(Machine(NewAttempt(Head(passes[p].todo), FALSE, p)), configured))
  /\ lastCall' = [vod |-> Head(passes[p].todo), force |-> FALSE]
  /\ lastFailure' = NoFailure
  /\ passes' = [passes EXCEPT ![p].todo = Tail(@)]
  /\ UNCHANGED <<configured, autoLinkTimer, linkTimeouts, autoLinkInFlight, autoLinkQueued>>
  /\ LFrame

\* finally of the pass
PassEndKeepsQueued(p) ==
  /\ UNCHANGED requests
  /\ PassIdle(p)
  /\ passes[p].todo = <<>>
  /\ passes' = [passes EXCEPT ![p] = FreePass]
  /\ autoLinkInFlight' = FALSE
  /\ lastWrites' = <<>>
  /\ NoEffects
  /\ IF autoLinkQueued
       THEN LET s == ScheduleAutoLink(autoLinkTimer, linkTimeouts, QueuedFollowUpMs)
            IN autoLinkTimer' = s.autoLinkTimer /\ linkTimeouts' = s.linkTimeouts
       ELSE UNCHANGED <<autoLinkTimer, linkTimeouts>>
  /\ UNCHANGED <<db, configured, autoLinkQueued, matchIdsCache, matchTimeCache,
                 matchMetadata, attempts>>
  /\ UNCHANGED sweepEntries
  /\ LFrame
PassEndOnFailure(p) ==
  /\ UNCHANGED requests
  /\ PassIdle(p)
  /\ passes[p].todo = <<>> \/ lastFailure.pass = p
  /\ passes' = [passes EXCEPT ![p] = FreePass]
  /\ autoLinkInFlight' = FALSE
  /\ autoLinkQueued' = FALSE
  /\ lastWrites' = <<>>
  /\ NoEffects
  /\ IF autoLinkQueued
       THEN LET s == ScheduleAutoLink(autoLinkTimer, linkTimeouts, QueuedFollowUpMs)
            IN autoLinkTimer' = s.autoLinkTimer /\ linkTimeouts' = s.linkTimeouts
       ELSE UNCHANGED <<autoLinkTimer, linkTimeouts>>
  /\ UNCHANGED <<db, configured, matchIdsCache, matchTimeCache, matchMetadata, attempts>>
  /\ UNCHANGED sweepEntries
  /\ LFrame
PassEndForgetsQueued(p) ==
  /\ UNCHANGED requests
  /\ PassIdle(p)
  /\ passes[p].todo = <<>>
  /\ passes' = [passes EXCEPT ![p] = FreePass]
  /\ autoLinkInFlight' = FALSE
  /\ autoLinkQueued' = FALSE
  /\ lastWrites' = <<>>
  /\ NoEffects
  /\ UNCHANGED <<autoLinkTimer, linkTimeouts>>
  /\ UNCHANGED <<db, configured, matchIdsCache, matchTimeCache, matchMetadata, attempts>>
  /\ UNCHANGED sweepEntries
  /\ LFrame
PassEnd(p) ==
  /\ UNCHANGED requests
  /\ PassIdle(p)
  /\ passes[p].todo = <<>>
  /\ passes' = [passes EXCEPT ![p] = FreePass]
  /\ autoLinkInFlight' = FALSE
  /\ autoLinkQueued' = FALSE
  /\ lastWrites' = <<>>
  /\ NoEffects
  /\ IF autoLinkQueued
       THEN LET s == ScheduleAutoLink(autoLinkTimer, linkTimeouts, QueuedFollowUpMs)
            IN autoLinkTimer' = s.autoLinkTimer /\ linkTimeouts' = s.linkTimeouts
       ELSE UNCHANGED <<autoLinkTimer, linkTimeouts>>
  /\ UNCHANGED <<db, configured, matchIdsCache, matchTimeCache, matchMetadata, attempts>>
  /\ UNCHANGED sweepEntries
  /\ LFrame

(***************************************************************************)
(* main.ts: the watcher wired to the auto-link queue.  startVODWatcher,    *)
(* scheduleVODRescan and the timers are those of the watcher above;        *)
(* rescanVODsAndNotify is rescanAndMaybeQueue with the scan, the           *)
(* notification and scheduleAutoLink(250) in its try block                 *)
(***************************************************************************)
\* startVODWatcher(folderPath) on a folder that exists, when none is watched
MainStart(watchOk) ==
  /\ watchPath = NoPath
  /\ Start("A", watchOk)

\* the fs.watch callback of main.ts: scheduleVODRescan(1000)
MainFsEvent ==
  /\ Request
  /\ watcher
  /\ LET s == ScheduleRescan(watchPath, rescanTimer, timeouts, debounceMs)
     IN /\ rescanTimer' = s.rescanTimer
        /\ timeouts' = s.timeouts
  /\ sinceEvent' = 0
  /\ burst' = Min(MaxBurst, burst + 1)
  /\ UNCHANGED <<watchPath, watcher, pollTimer, rescanInFlight, rescanQueued, rescans, sawTrigger>>
  /\ UNCHANGED <<db, configured, autoLinkTimer, linkTimeouts, autoLinkInFlight,
                 autoLinkQueued, matchIdsCache, matchTimeCache, matchMetadata,
                 passes, attempts, lastWrites, lastCall, lastNotified, lastSlots,
                 lastFailure, sweepEntries>>
  /\ UNCHANGED <<rlVars, picker, probe>>

\* the poll interval of main.ts fires: scheduleVODRescan(0); the triggers of
\* a behaviour, events and poll ticks, are MaxRequests at most
MainPollTick ==
  /\ Request
  /\ pollTimer = 0
  /\ pollTimer' = pollIntervalMs
  /\ LET s == ScheduleRescan(watchPath, rescanTimer, timeouts, 0)
     IN /\ rescanTimer' = s.rescanTimer
        /\ timeouts' = s.timeouts
  /\ UNCHANGED <<watchPath, watcher, rescanInFlight, rescanQueued, rescans, sawTrigger,
                 sinceEvent, burst>>
  /\ UNCHANGED <<db, configured, autoLinkTimer, linkTimeouts, autoLinkInFlight,
                 autoLinkQueued, matchIdsCache, matchTimeCache, matchMetadata,
                 passes, attempts, lastWrites, lastCall, lastNotified, lastSlots,
                 lastFailure, sweepEntries>>
  /\ UNCHANGED <<rlVars, picker, probe>>

\* scanVODs settles in rescanVODsAndNotify: fulfilled (send 'vods-updated',
\* scheduleAutoLink(250)) or rejected (caught and logged); then finally
RescanVODsSettleAlwaysSchedules(r, ok) ==
  /\ rescans[r] = "running"
  /\ rescans' = [rescans EXCEPT ![r] = "free"]
  /\ sawTrigger' = [sawTrigger EXCEPT ![r] = FALSE]
  /\ rescanInFlight' = FALSE
  /\ IF rescanQueued
       THEN /\ rescanQueued' = FALSE
            /\ LET s == ScheduleRescan(watchPath, rescanTimer, timeouts, FollowUpMs)
               IN /\ rescanTimer' = s.rescanTimer
                  /\ timeouts' = s.timeouts
       ELSE UNCHANGED <<rescanQueued, rescanTimer, timeouts>>
  /\ UNCHANGED <<watchPath, watcher, pollTimer, sinceEvent, burst>>
  /\ LET s == ScheduleAutoLink(autoLinkTimer, linkTimeouts, IpcFollowUpMs)
     IN autoLinkTimer' = s.autoLinkTimer /\ linkTimeouts' = s.linkTimeouts
  /\ lastNotified' = (IF ok THEN 1 ELSE 0)
  /\ lastWrites' = <<>> /\ lastCall' = NoCall /\ lastSlots' = 0 /\ lastFailure' = NoFailure
  /\ UNCHANGED <<db, configured, autoLinkInFlight, autoLinkQueued, matchIdsCache,
                 matchTimeCache, matchMetadata, passes, attempts, requests, sweepEntries>>
  /\ UNCHANGED <<rlVars, picker, probe>>
RescanVODsSettle(r, ok) ==
  /\ rescans[r] = "running"
  /\ rescans' = [rescans EXCEPT ![r] = "free"]
  /\ sawTrigger' = [sawTrigger EXCEPT ![r] = FALSE]
  /\ rescanInFlight' = FALSE
  /\ IF rescanQueued
       THEN /\ rescanQueued' = FALSE
            /\ LET s == ScheduleRescan(watchPath, rescanTimer, timeouts, FollowUpMs)
               IN /\ rescanTimer' = s.rescanTimer
                  /\ timeouts' = s.timeouts
       ELSE UNCHANGED <<rescanQueued, rescanTimer, timeouts>>
  /\ UNCHANGED <<watchPath, watcher, pollTimer, sinceEvent, burst>>
  /\ IF ok
       THEN LET s == ScheduleAutoLink(autoLinkTimer, linkTimeouts, IpcFollowUpMs)
            IN autoLinkTimer' = s.autoLinkTimer /\ linkTimeouts' = s.linkTimeouts
       ELSE UNCHANGED <<autoLinkTimer, linkTimeouts>>
  /\ lastNotified' = (IF ok THEN 1 ELSE 0)
  /\ lastWrites' = <<>> /\ lastCall' = NoCall /\ lastSlots' = 0 /\ lastFailure' = NoFailure
  /\ UNCHANGED <<db, configured, autoLinkInFlight, autoLinkQueued, matchIdsCache,
                 matchTimeCache, matchMetadata, passes, attempts, requests, sweepEntries>>
  /\ UNCHANGED <<rlVars, picker, probe>>

\* the loop of main.ts's autoLinkAllUnlinked: await autoLinkVod(vod.id)
MainPassNext(p) ==
  /\ UNCHANGED requests
  /\ PassIdle(p)
  /\ passes[p].todo # <<>>
  /\ FreeSlot # 0
  /\ Commit(FreeSlot, EnterMain(Machine(NewAttempt(Head(passes[p].todo), FALSE, p)), configured))
  /\ lastCall' = [vod |-> Head(passes[p].todo), force |-> FALSE]
  /\ lastFailure' = NoFailure
  /\ passes' = [passes EXCEPT ![p].todo = Tail(@)]
  /\ UNCHANGED <<configured, autoLinkTimer, linkTimeouts, autoLinkInFlight, autoLinkQueued>>
  /\ LFrame

(***************************************************************************)
(* Direct calls of the pure functions: unlinkMatch of database.ts and      *)
(* scoreCandidates of the auto-linker, on inputs drawn from bounded sets;   *)
(* a behaviour makes one call (and may repeat it)                           *)
(***************************************************************************)
\* candidate lists of every length up to this one, over all the offsets
MaxProbeLen == 2
\* length of the long candidate lists (more candidates than slice(0, 5) keeps)
LongProbeLen == 6

\* start times of the candidates, relative to the recording's time
ProbeOffsets ==
  {-120000, -60000, -30000, 0, 90000, 180000, 240000, 270000, 540000, 600000,
   660000, 900000}
LongProbeOffsets == {240000, 270000, 600000}
ProbeOffsetLists ==
  UNION {[1..n -> ProbeOffsets] : n \in 0..MaxProbeLen}
    \cup [1..LongProbeLen -> LongProbeOffsets]
ProbeIds == <<"m1", "m2", "m3", "m4", "m5", "m6", "m7", "m8">>
ProbeCandidates(vodTimeMs, offsets) ==
  [i \in 1..Len(offsets) |->
     [matchStartMs |-> vodTimeMs + offsets[i], matchId |-> ProbeIds[i]]]

\* rows of the vods table in every combination of the link columns
ProbeRows ==
  [matchId : {NoMatch, "m1"},
   status : {"none", "linking", "linked", "ambiguous", "not_found", "error"},
   confidenceMs : {NoConfidence, 0, 240000},
   candidates : {<<>>, <<"m1">>, <<"m2", "m3">>},
   error : {NoError, "config", "remote"}]

NoDecision ==
  [matchId |-> NoMatch, status |-> "none", confidenceMs |-> NoConfidence,
   candidates |-> <<>>]
\* rows autoLinkVod is called on, and the answers the caches hold for a window
ProbeAttemptRows ==
  {NullRow,
   [NullRow EXCEPT !.matchId = "m1", !.status = "linked", !.confidenceMs = 90000],
   [NullRow EXCEPT !.status = "ambiguous", !.confidenceMs = 240000,
                   !.candidates = <<"m2", "m3">>]}
ProbeMatchIds == {"m1", "m2", "m3", "m4", "m5", "m6", "m7"}
ProbeIdLists ==
  {<<>>, <<"m1">>, <<"m7">>, <<"m3", "m2">>, <<"m1", "m5">>, <<"m4", "m1", "m2">>,
   <<"m6", "m4", "m3", "m2", "m1", "m5">>}
NoProbe ==
  [op |-> "none", row |-> NullRow, rowOut |-> NullRow, vodTimeMs |-> 0,
   candidates |-> <<>>, decision |-> NoDecision, again |-> NoDecision,
   vod |-> 0, force |-> FALSE, cfg |-> FALSE, ids |-> EmptyIdsCache,
   writes |-> <<>>, ended |-> "none", notes |-> 0, slots |-> 0, untried |-> <<>>,
   swept |-> FALSE, rowAfter |-> NullRow, reqs |-> <<>>]

InitP == probe = NoProbe

\* db.unlinkMatch on a row
UnlinkCall(row) ==
  /\ probe.op = "none"
  /\ probe' = [NoProbe EXCEPT !.op = "unlinkMatch", !.row = row,
                              !.rowOut = unlinkMatch(row)]
  /\ PFrame

\* scoreCandidates({ vodTimeMs, candidates })
ScoreCall(vodTimeMs, candidates) ==
  /\ probe.op = "none"
  /\ probe' = [NoProbe EXCEPT !.op = "scoreCandidates", !.vodTimeMs = vodTimeMs,
                              !.candidates = candidates,
                              !.decision = scoreCandidates(vodTimeMs, candidates)]
  /\ PFrame

\* autoLinkVod(v, { force }) on a row, with the ids of every window in
\* matchIdsCache and the start time of every match in matchTimeCache: the
\* call runs without a remote call up to its end (or to the metadata fetch)
AttemptCall(v, force, cfg, row, ids) ==
  /\ probe.op = "none"
  /\ \A k \in AnchorTimes : ids[k] # <<>> => \E i \in 1..Len(vodTimesToTry(v)) : vodTimesToTry(v)[i] = k
  /\ LET M0 == [a |-> NewAttempt(v, force, 0), row |-> row, log |-> <<>>,
                idsCache |-> [k \in AnchorTimes |-> <<ids[k]>>],
                timeCache |-> ProbeMatchIds, meta |-> {}, notes |-> 0, slots |-> 0]
         M1 == Enter(M0, cfg)
         M2 == IF M1.a.pc = "import" THEN Run([M1 EXCEPT !.a = [@ EXCEPT !.pc = "anchor"]])
               ELSE M1
     IN probe' = [NoProbe EXCEPT !.op = "autoLinkVod", !.row = row, !.rowOut = M2.row,
                                 !.vod = v, !.force = force, !.cfg = cfg, !.ids = ids,
                                 !.writes = M2.log, !.ended = M2.a.pc,
                                 !.notes = M2.notes, !.slots = M2.slots,
                                 !.untried = M2.a.anchors]
  /\ PFrame

\* rows a call of autoLinkVod can find: every link state, and the row an
\* attempt leaves when link-match ran while it was in flight and it then
\* failed (matchId set by linkMatch, state written by setVodLinkStatus)
ProbeEntryRows ==
  ProbeAttemptRows \cup
    {[NullRow EXCEPT !.status = "linking"],
     [NullRow EXCEPT !.status = "not_found", !.error = "config"],
     [NullRow EXCEPT !.status = "error", !.error = "remote"],
     [NullRow EXCEPT !.matchId = "m1", !.status = "error", !.error = "remote"]}
\* autoLinkVod(v, { force }) from the call to its first await (or to its
\* return, when it returns before the try block), in the auto-linker service
\* (main = FALSE) and in main.ts (main = TRUE)
EntryCall(main, force, cfg, row) ==
  /\ probe.op = "none"
  /\ LET M0 == [a |-> NewAttempt(1, force, 0), row |-> row, log |-> <<>>,
                idsCache |-> EmptyIdsCache, timeCache |-> {}, meta |-> {},
                notes |-> 0, slots |-> 0]
         M1 == IF main THEN EnterMain(M0, cfg) ELSE Enter(M0, cfg)
     IN probe' = [NoProbe EXCEPT !.op = IF main THEN "main.autoLinkVod" ELSE "autoLinkVod.entry",
                                 !.row = row, !.rowOut = M1.row, !.vod = 1,
                                 !.force = force, !.cfg = cfg, !.writes = M1.log,
                                 !.ended = M1.a.pc, !.notes = M1.notes, !.slots = M1.slots]
  /\ PFrame

\* after the probed call has returned, a pass of autoLinkAllUnlinked: the
\* recording is visited if listUnlinkedVods lists it, by a non-forced
\* autoLinkVod whose queries the remote API answers as before
SweepAfter ==
  /\ probe.op = "autoLinkVod"
  /\ probe.ended = "done"
  /\ ~probe.swept
  /\ LET d == [v \in Vods |-> IF v = probe.vod THEN probe.rowOut ELSE NullRow]
         todo == listUnlinkedVods(d)
         listed == \E i \in 1..Len(todo) : todo[i] = probe.vod
         M0 == [a |-> NewAttempt(probe.vod, FALSE, 1), row |-> probe.rowOut, log |-> <<>>,
                idsCache |-> [k \in AnchorTimes |-> <<probe.ids[k]>>],
                timeCache |-> ProbeMatchIds, meta |-> {}, notes |-> 0, slots |-> 0]
         M1 == Enter(M0, probe.cfg)
         M2 == IF M1.a.pc = "import" THEN Run([M1 EXCEPT !.a = [@ EXCEPT !.pc = "anchor"]])
               ELSE M1
     IN probe' = [probe EXCEPT !.swept = TRUE,
                               !.rowAfter = IF listed THEN M2.row ELSE probe.rowOut]
  /\ PFrame

\* the same call once more
ScoreAgain ==
  /\ probe.op = "scoreCandidates"
  /\ probe.again = NoDecision
  /\ probe' = [probe EXCEPT !.again = scoreCandidates(probe.vodTimeMs, probe.candidates)]
  /\ PFrame

(***************************************************************************)
(* The vod:// protocol of services/vod-watcher.ts: a request URL is        *)
(* decoded to a file path and served only from the allowed roots.  Strings *)
(* are sequences of characters; path.resolve, path.extname and             *)
(* decodeURIComponent are those of Node on a POSIX system                  *)
(***************************************************************************)
\* directories of a requested path: every list of at most this many segments
MaxDirs == 3
\* process.cwd(), against which path.resolve resolves a relative path
Cwd == <<"/", "a">>
DirNames == {<<"a">>, <<"a", "b">>, <<"b">>, <<".", ".">>}
FileNames == {<<>>, <<"f", ".", "m", "p", "4">>, <<"f", ".", "M", "P", "4">>, <<"f", ".", "x">>}
RootLists ==
  {<<>>, << <<>> >>, << <<"/", "a">> >>, << <<"/", "a", "/">> >>, << <<"/">> >>,
   << <<"/", "a", "/", "b">>, <<"/", "b">> >>, << <<"/", "a", "/", ".", ".", "/", "b">> >>}
UrlForms == {"encoded", "slashes", "file", "malformed"}
StatOutcomes == {"file", "directory", "missing"}
VodScheme == <<"v", "o", "d", ":", "/", "/">>
DefaultExtensions == {<<".", "m", "p", "4">>}

RECURSIVE Join(_, _)
\* segs.join(sep)
Join(segs, sep) ==
  IF segs = <<>> THEN <<>>
  ELSE IF Len(segs) = 1 THEN segs[1]
  ELSE segs[1] \o sep \o Join(Tail(segs), sep)

RECURSIVE Split(_, _)
\* s.split('/'), the segment being read in cur
Split(s, cur) ==
  IF s = <<>> THEN <<cur>>
  ELSE IF Head(s) = "/" THEN <<cur>> \o Split(Tail(s), <<>>)
  ELSE Split(Tail(s), Append(cur, Head(s)))

RECURSIVE normalizeString(_, _)
\* the segments left of a path once '', '.' and '..' are resolved, on the
\* segments out already kept; '..' above the root stays at the root
normalizeString(segs, out) ==
  IF segs = <<>> THEN out
  ELSE LET s == Head(segs)
       IN IF s = <<>> \/ s = <<".">> THEN normalizeString(Tail(segs), out)
          ELSE IF s = <<".", ".">>
            THEN normalizeString(Tail(segs),
                                 IF out = <<>> THEN out ELSE SubSeq(out, 1, Len(out) - 1))
          ELSE normalizeString(Tail(segs), Append(out, s))

StartsWith(s, prefix) ==
  Len(prefix) <= Len(s) /\ SubSeq(s, 1, Len(prefix)) = prefix
EndsWith(s, suffix) ==
  Len(suffix) <= Len(s) /\ SubSeq(s, Len(s) - Len(suffix) + 1, Len(s)) = suffix

\* path.resolve(p): absolute, normalised, without a trailing separator
\* (except for the root itself)
PathResolve(p) ==
  LET full == IF StartsWith(p, <<"/">>) THEN p ELSE Cwd \o <<"/">> \o p
  IN <<"/">> \o Join(normalizeString(Split(full, <<>>), <<>>), <<"/">>)

ensureTrailingSep(p) ==
  LET resolved == PathResolve(p)
  IN IF EndsWith(resolved, <<"/">>) THEN resolved ELSE resolved \o <<"/">>

isPathWithinRootNoSeparator(candidatePath, rootPath) ==
  StartsWith(PathResolve(candidatePath), PathResolve(rootPath))

isPathWithinRoot(candidatePath, rootPath) ==
  LET root == ensureTrailingSep(rootPath)
      resolved == PathResolve(candidatePath)
  IN resolved = PathResolve(rootPath) \/ StartsWith(resolved, root)

RECURSIVE encodeURIComponent(_)
\* of the characters of the paths here only '/' is escaped
encodeURIComponent(s) ==
  IF s = <<>> THEN <<>>
  ELSE (IF Head(s) = "/" THEN <<"%", "2", "F">> ELSE <<Head(s)>>)
         \o encodeURIComponent(Tail(s))

\* the value of a thrown URIError
Malformed == <<"URIError">>
RECURSIVE decodeURIComponent(_)
\* '%2F' is '/'; a '%' not followed by two hexadecimal digits throws
decodeURIComponent(s) ==
  IF s = <<>> THEN <<>>
  ELSE IF Head(s) = "%"
    THEN IF Len(s) >= 3 /\ s[2] = "2" /\ s[3] = "F"
           THEN LET rest == decodeURIComponent(SubSeq(s, 4, Len(s)))
                IN IF rest = Malformed THEN Malformed ELSE <<"/">> \o rest
           ELSE Malformed
  ELSE LET rest == decodeURIComponent(Tail(s))
       IN IF rest = Malformed THEN Malformed ELSE <<Head(s)>> \o rest

\* the result null of decodeVodUrlToFilePath
NoFilePath == <<"null">>
decodeVodUrlToFilePath(rawUrl) ==
  IF ~StartsWith(rawUrl, VodScheme) THEN NoFilePath
  ELSE LET rest0 == SubSeq(rawUrl, Len(VodScheme) + 1, Len(rawUrl))
           rest == IF StartsWith(rest0, <<"/">>) THEN Tail(rest0) ELSE rest0
           decoded == decodeURIComponent(rest)
       IN IF decoded = Malformed THEN NoFilePath ELSE decoded

toLowerCase(s) ==
  [i \in 1..Len(s) |->
     IF s[i] = "M" THEN "m" ELSE IF s[i] = "P" THEN "p" ELSE s[i]]

\* position of the last c in s, 0 when there is none
LastIndexOf(s, c) ==
  LET at == {i \in 1..Len(s) : s[i] = c}
  IN IF at = {} THEN 0 ELSE CHOOSE i \in at : \A j \in at : j <= i

\* path.extname(p): from the last '.' of the last segment, '' when it has
\* none or only a leading one
PathExtname(p) ==
  LET kept == SelectSeq(Split(p, <<>>), LAMBDA s : s # <<>>)
      base == IF kept = <<>> THEN <<>> ELSE kept[Len(kept)]
      dot == LastIndexOf(base, ".")
  IN IF dot <= 1 \/ base = <<".", ".">> THEN <<>> ELSE SubSeq(base, dot, Len(base))

Refused(reason) == [ok |-> FALSE, reason |-> reason, filePath |-> <<>>]

\* stat: what fs.statSync finds at the path
resolveVodRequestToFilePath(requestUrl, allowedRoots, stat) ==
  LET decoded == decodeVodUrlToFilePath(requestUrl)
      roots == SelectSeq(allowedRoots, LAMBDA r : r # <<>>)
  IN IF decoded = NoFilePath \/ decoded = <<>> THEN Refused("invalid_url")
     ELSE IF roots = <<>> THEN Refused("no_allowed_roots")
     ELSE IF ~\E i \in 1..Len(roots) : isPathWithinRoot(decoded, roots[i])
       THEN Refused("out_of_root")
     ELSE IF toLowerCase(PathExtname(decoded)) \notin DefaultExtensions
       THEN Refused("unsupported_extension")
     ELSE IF stat = "missing" THEN Refused("missing")
     ELSE IF stat # "file" THEN Refused("not_a_file")
     ELSE [ok |-> TRUE, reason |-> "", filePath |-> decoded]

\* the paths requested: absolute or relative, up to MaxDirs directories, and
\* a file name or none
DirLists == UNION {[1..n -> DirNames] : n \in 0..MaxDirs}
RequestPath(absolute, dirs, file) ==
  (IF absolute THEN <<"/">> ELSE <<>>)
    \o Join(dirs \o (IF file = <<>> THEN <<>> ELSE <<file>>), <<"/">>)
\* the URL of a path in each form: as the renderer builds it, with the path
\* after three slashes, under another scheme, and cut inside an escape
RequestUrl(form, p) ==
  CASE form = "encoded" -> VodScheme \o encodeURIComponent(p)
    [] form = "slashes" -> VodScheme \o <<"/">> \o p
    [] form = "file" -> <<"f", "i", "l", "e", ":", "/", "/">> \o p
    [] OTHER -> VodScheme \o encodeURIComponent(p) \o <<"%", "2">>

\* one call of resolveVodRequestToFilePath
ResolveCall ==
  /\ probe.op = "none"
  /\ \E form \in UrlForms, absolute \in BOOLEAN, dirs \in DirLists, file \in FileNames,
        roots \in RootLists, stat \in StatOutcomes :
       LET url == RequestUrl(form, RequestPath(absolute, dirs, file))
       IN probe' = [op |-> "resolveVodRequestToFilePath", requestUrl |-> url,
                    allowedRoots |-> roots, stat |-> stat,
                    res |-> resolveVodRequestToFilePath(url, roots, stat)]
  /\ PFrame

(***************************************************************************)
(* Specifications                                                          *)
(***************************************************************************)
Init == InitRL /\ InitW /\ InitL /\ InitP

NextRL ==
  \/ \E c \in Callers : Call(c)
  \/ \E c \in Callers : StartRun(c)
  \/ \E c \in Callers : WakeInterval(c)
  \/ \E c \in Callers : WakeWindow(c)
  \/ \E c \in Callers : Settle(c)
  \/ Tick

SpecRL == Init /\ [][NextRL]_vars

NextU ==
  \/ \E c \in Callers : CallUnqueued(c)
  \/ \E c \in Callers : WakeInterval(c)
  \/ \E c \in Callers : WakeWindow(c)
  \/ \E c \in Callers : SettleUnqueued(c)
  \/ Tick
SpecU == Init /\ [][NextU]_vars

NextW ==
  \/ \E watchOk \in BOOLEAN : Start("A", watchOk)
  \/ StartNoFolder
  \/ Stop
  \/ FsEvent
  \/ PollTick
  \/ \E id \in TimerIds : TimerFire(id)
  \/ \E r \in RescanIds : RescanComplete(r)
  \/ WTick

SpecW == Init /\ [][NextW]_vars

NextL ==
  \/ \E v \in Vods, force \in BOOLEAN : LinkOne(v, force)
  \/ \E a \in AttemptIds : ImportDone(a)
  \/ \E a \in AttemptIds, matchIds \in IdLists : ListIdsResolve(a, matchIds)
  \/ \E a \in AttemptIds, usable \in BOOLEAN : FetchResolve(a, usable)
  \/ \E a \in AttemptIds : RemoteReject(a)
  \/ \E a \in AttemptIds, ok \in BOOLEAN : MetadataSettle(a, ok)
  \/ \E v \in Vods, m \in MatchIds : LinkMatchIpc(v, m)
  \/ \E d \in {0, IpcFollowUpMs} : ScheduleIpc(d)
  \/ \E cfg \in BOOLEAN : SetSetting(cfg)
  \/ \E id \in TimerIds : AutoLinkTimerFire(id)
  \/ \E p \in PassIds : PassNext(p)
  \/ \E p \in PassIds : PassEnd(p)
  \/ \E v \in Vods : PickerStart(v)
  \/ PickerImportDone
  \/ \E how \in {"ok", "unusable", "rejected"} : PickerFetchSettle(how)
SpecL == Init /\ [][NextL]_vars

\* main.ts with no Riot credentials in the settings: every autoLinkVod call
\* of a pass returns before its first await
MainQueueSteps ==
  \/ \E id \in TimerIds : AutoLinkTimerFire(id)
  \/ \E p \in PassIds : MainPassNext(p)
  \/ \E p \in PassIds : PassEnd(p)
NextM ==
  \/ \E watchOk \in BOOLEAN : MainStart(watchOk)
  \/ MainFsEvent
  \/ MainPollTick
  \/ \E id \in TimerIds : TimerFire(id)
  \/ \E r \in RescanIds, ok \in BOOLEAN : RescanVODsSettle(r, ok)
  \/ WTick
  \/ MainQueueSteps
\* time passes, due timers fire, scans settle, the loop of a pass goes on
FairM ==
  /\ WF_vars(WTick)
  /\ WF_vars(\E id \in TimerIds : TimerFire(id))
  /\ WF_vars(\E r \in RescanIds, ok \in BOOLEAN : RescanVODsSettle(r, ok))
  /\ WF_vars(\E id \in TimerIds : AutoLinkTimerFire(id))
  /\ WF_vars(\E p \in PassIds : MainPassNext(p))
  /\ WF_vars(\E p \in PassIds : PassEnd(p))
InitM == Init /\ ~configured
SpecM == InitM /\ [][NextM]_vars /\ FairM

NextP ==
  \/ \E row \in ProbeRows : UnlinkCall(row)
  \/ \E offsets \in ProbeOffsetLists : ScoreCall(BaseMs, ProbeCandidates(BaseMs, offsets))
  \/ ScoreAgain
  \/ \E v \in Vods, force \in BOOLEAN, cfg \in BOOLEAN, row \in ProbeAttemptRows,
        ids \in [AnchorTimes -> ProbeIdLists] : AttemptCall(v, force, cfg, row, ids)
  \/ \E main \in BOOLEAN, force \in BOOLEAN, cfg \in BOOLEAN, row \in ProbeEntryRows :
        EntryCall(main, force, cfg, row)
  \/ SweepAfter
SpecP == Init /\ [][NextP]_vars

NextV == ResolveCall
SpecV == Init /\ [][NextV]_vars

(***************************************************************************)
(* Rate limiter claims                                                     *)
(***************************************************************************)
GrantAt(i) == grants[i][2]
GrantOf(i) == grants[i][1]

\* C1: the grant timestamps are non-decreasing in grant order, and any two
\* distinct grants are at least minIntervalMs apart.
C1_GrantsSpaced ==
  \A i \in 1..Len(grants) : \A j \in 1..Len(grants) :
    i < j => /\ GrantAt(i) <= GrantAt(j)
             /\ GrantAt(j) - GrantAt(i) >= minIntervalMs

\* three callers that invoked the limiter at the same instant were all granted
C1_Witness ==
  /\ Len(grants) >= 3
  /\ calledAt[GrantOf(1)] = calledAt[GrantOf(2)]
  /\ calledAt[GrantOf(2)] = calledAt[GrantOf(3)]

\* C2: no rolling window of length windowMs (a grant at t counts in the window
\* ending at u while u - t < windowMs, as the limiter's own pruning counts it)
\* ever holds more than windowMax grants.
C2_WindowQuota ==
  \A j \in 1..Len(grants) :
    Cardinality({i \in 1..j : GrantAt(j) - GrantAt(i) < windowMs}) <= windowMax

\* more simultaneous callers than windowMax were granted, one after a window wait
C2_Witness ==
  /\ Len(grants) > windowMax
  /\ \A c \in Callers : calledAt[c] = StartMs
  /\ GrantAt(Len(grants)) - GrantAt(1) >= windowMs

\* C3: slots are granted in the order of the calls, and at most one caller is
\* between the start of its acquisition and the end of its operation.
C3_FifoSerialized ==
  /\ \A i \in 1..Len(grants) : GrantOf(i) = queue[i]
  /\ Cardinality({c \in Callers : pc[c] \in {"sleepInterval", "sleepWindow", "running"}}) <= 1

\* a caller sleeps in its acquisition while a caller that called at the same
\* instant waits in the queue behind it
C3_Witness ==
  \E c \in Callers :
    /\ Sleeping(c)
    /\ \E d \in Callers : pc[d] = "queued" /\ calledAt[d] = calledAt[c]

\* C4: when an operation fails, its caller receives that error, the limiter
\* state keeps the grant, and the next caller in the queue can start at once.
C4_FailureStep ==
  \A c \in Callers :
    (pc[c] = "running" /\ pc'[c] = "settled" /\ outcome'[c] = "err") =>
      /\ delivered'[c] = "err"
      /\ lastRequestAt' = lastRequestAt
      /\ recentRequests' = recentRequests
      /\ \A d \in Callers : pc[d] = "queued" => (PosInQueue(d) = PosInQueue(c) + 1 => MayStart(d)')

C4_FailureKeepsSlotAndQueue ==
  /\ [][C4_FailureStep]_vars
  /\ [](\A d \in Callers :
          (pc[d] = "queued" /\ \A i \in 1..(PosInQueue(d) - 1) : pc[queue[i]] = "settled")
            => ENABLED StartRun(d))

\* an operation failed and a caller that was queued behind it runs its operation
C4_Witness ==
  \E c \in Callers : \E d \in Callers :
    /\ pc[c] = "settled" /\ outcome[c] = "err"
    /\ pc[d] \in {"running", "settled"}
    /\ PosInQueue(d) > PosInQueue(c)
    /\ \E i \in 1..Len(grants) : GrantOf(i) = c /\ calledAt[d] <= GrantAt(i)


(***************************************************************************)
(* Watcher claims                                                          *)
(***************************************************************************)
\* C6: at most one onRescan call is in progress at any time, also when start()
\* or stop() is called while a rescan is running.
C6_NoOverlap == Cardinality(RunningRescans) <= 1

FollowUpArmed(rt, to) ==
  /\ rt # 0
  /\ PendingTimeouts(to) = {rt}
  /\ to[rt] = [left |-> FollowUpMs, delay |-> FollowUpMs]

\* C7 as claimed: when a rescan during which a trigger reached
\* rescanAndMaybeQueue completes, exactly one follow-up (250 ms) is scheduled and
\* the queued flag is cleared.
C7_FollowUpAfterEveryTriggeredRescan ==
  [][\A r \in RescanIds :
       (rescans[r] = "running" /\ rescans'[r] = "free" /\ sawTrigger[r]) =>
         (~rescanQueued' /\ FollowUpArmed(rescanTimer', timeouts'))]_vars

C7_CompletionStep ==
  \A r \in RescanIds :
    (rescans[r] = "running" /\ rescans'[r] = "free") =>
      /\ ~rescanQueued'
      /\ ~rescanInFlight'
      /\ IF rescanQueued
           THEN FollowUpArmed(rescanTimer', timeouts')
           ELSE rescanTimer' = rescanTimer /\ timeouts' = timeouts

\* C7 (amended): triggers that reach rescanAndMaybeQueue while a rescan runs leave
\* the queued flag set until a rescan completes or stop() is called; the completion
\* that finds the flag set clears it and arms the single timer for 250 ms, a
\* completion that finds it clear arms nothing.
C7_OneFollowUpUnlessStopped ==
  /\ [][C7_CompletionStep]_vars
  /\ [](rescanQueued =>
          /\ watchPath # NoPath
          /\ rescanInFlight
          /\ \E r \in RunningRescans : sawTrigger[r])

\* a rescan has completed with the queued flag set: its follow-up is pending
C7_Witness ==
  /\ FollowUpArmed(rescanTimer, timeouts)
  /\ ~rescanQueued
  /\ RunningRescans = {}

\* C8 as claimed: one timer at most is pending, and a rescan that starts after
\* filesystem events starts only when debounceMs has elapsed since the last event.
C8_RescanOnlyAfterDebounce ==
  /\ [](Cardinality(PendingTimeouts(timeouts)) <= 1)
  /\ [][(burst > 0 /\ Cardinality(RunningRescans') > Cardinality(RunningRescans))
          => sinceEvent >= debounceMs]_vars

\* C8 (amended): the watcher never holds more than the one timer rescanTimer names,
\* and a timer armed with the debounce delay is due no earlier than debounceMs
\* after the last filesystem event.
C8_SingleDebouncedTimer ==
  /\ PendingTimeouts(timeouts) \subseteq {rescanTimer}
  /\ \A i \in PendingTimeouts(timeouts) :
       timeouts[i].delay = debounceMs => timeouts[i].left + sinceEvent >= debounceMs

\* several events arrived in one burst and the one debounce timer is due
C8_Witness ==
  /\ burst >= 2
  /\ PendingTimeouts(timeouts) = {rescanTimer}
  /\ timeouts[rescanTimer] = [left |-> 0, delay |-> debounceMs]

(***************************************************************************)
(* Claims about the auto-linker                                            *)
(***************************************************************************)
\* a pass of autoLinkAllUnlinked ends in this step
PassEnds == \E p \in PassIds : passes[p].running /\ ~passes'[p].running
\* the timer of scheduleAutoLink fires in this step
LinkTimerFires == autoLinkTimer # 0 /\ autoLinkTimer' = 0

C5_Step ==
  /\ PassEnds =>
       /\ ~autoLinkInFlight' /\ ~autoLinkQueued'
       /\ IF autoLinkQueued
            THEN /\ autoLinkTimer' # 0
                 /\ linkTimeouts'[autoLinkTimer'] = QueuedFollowUpMs
                 /\ PendingLinkTimeouts(linkTimeouts') = {autoLinkTimer'}
            ELSE UNCHANGED <<autoLinkTimer, linkTimeouts>>
  /\ (LinkTimerFires /\ RunningPasses # {}) => (autoLinkQueued' /\ passes' = passes)
  /\ (LinkTimerFires /\ RunningPasses = {}) => Cardinality(RunningPasses') = 1
  /\ (autoLinkQueued /\ ~PassEnds) => autoLinkQueued'

Changes == {w \in {lastWrites[i] : i \in 1..Len(lastWrites)} : w.from # w.to}
FinalStates == {"linked", "ambiguous", "not_found", "error"}

\* C9 (as stated): every change of a recording's link state is none->linking,
\* linking->{linked, ambiguous, not_found, error} or any state->none by unlink.
C9_OnlyTheStatedGraph ==
  \A w \in Changes :
    \/ w.from = "none" /\ w.to = "linking"
    \/ w.from = "linking" /\ w.to \in FinalStates
    \/ w.to = "none" /\ w.by = "unlinkMatch"

C9_ForcedRelinkStep ==
  \A v \in Vods :
    (db[v].status = "linked" /\ db'[v].status = "linking") =>
      /\ Len(lastWrites') = 2
      /\ lastWrites'[1] = [to |-> "none", by |-> "unlinkMatch", from |-> "linked"]
      /\ lastWrites'[2] = [to |-> "linking", by |-> "setVodLinkStatus", from |-> "none"]

\* C9 (amended): state none is entered only by unlinkMatch and left only for
\* linking, for not_found (no credentials) or, by a manual link, for linked;
\* linking is written by setVodLinkStatus from every state but linked; a
\* recording goes from linked to linking only in a forced relink, whose
\* unlinkMatch comes first; linkMatch and the link-match handler write linked
\* from whatever state they find.
C9_TransitionsOfTheCode ==
  /\ [](\A w \in Changes :
          /\ w.to = "none" <=> w.by = "unlinkMatch"
          /\ w.to = "linking" => (w.from # "linked" /\ w.by = "setVodLinkStatus")
          /\ w.from = "none" =>
               \/ w.to \in {"linking", "not_found"} /\ w.by = "setVodLinkStatus"
               \/ w.to = "linked" /\ w.by = "link-match"
          /\ w.by \in {"linkMatch", "link-match"} => w.to = "linked")
  /\ [][C9_ForcedRelinkStep]_vars
\* a forced relink of a linked recording has just unlinked it and set linking
C9_Witness ==
  /\ Len(lastWrites) = 2
  /\ lastWrites[1].by = "unlinkMatch"
  /\ lastWrites[1].from = "linked"
  /\ lastWrites[2].to = "linking"

\* C10: a recording whose matchId is set has link state linked.
C10_MatchIdImpliesLinked ==
  \A v \in Vods : db[v].matchId # NoMatch => db[v].status = "linked"

\* C11: a recording's candidates list is non-empty only while its link state
\* is ambiguous (so a linked recording has none).
C11_CandidatesOnlyWhenAmbiguous ==
  \A v \in Vods : db[v].candidates # <<>> => db[v].status = "ambiguous"

(***************************************************************************)
(* Claims about the pure functions                                         *)
(***************************************************************************)
\* C12: unlinkMatch, on a row in any state, leaves matchId null, state none,
\* no candidates, no confidence and no error.
C12_UnlinkResetsEveryLinkField ==
  probe.op = "unlinkMatch" =>
    /\ probe.rowOut.matchId = NoMatch
    /\ probe.rowOut.status = "none"
    /\ probe.rowOut.candidates = <<>>
    /\ probe.rowOut.confidenceMs = NoConfidence
    /\ probe.rowOut.error = NoError
\* unlinkMatch was called on a linked row that still held candidates
C12_Witness ==
  /\ probe.op = "unlinkMatch"
  /\ probe.row.matchId # NoMatch
  /\ probe.row.status = "linked"
  /\ probe.row.candidates # <<>>
  /\ probe.row.error # NoError

\* The words of the scoring rule, on the inputs of the probed call:
\* the candidates that start no more than 60 s before the recording's time
Survivors ==
  {i \in 1..Len(probe.candidates) :
     probe.candidates[i].matchStartMs - probe.vodTimeMs >= -ALLOW_EARLY_MS}
ScoreOf(i) == Max(0, probe.candidates[i].matchStartMs - probe.vodTimeMs)
BestIndex == CHOOSE i \in Survivors : \A j \in Survivors : ScoreOf(i) <= ScoreOf(j)
BestScore == ScoreOf(BestIndex)
SecondScore ==
  ScoreOf(CHOOSE i \in Survivors \ {BestIndex} :
            \A j \in Survivors \ {BestIndex} : ScoreOf(i) <= ScoreOf(j))
IndexOfId(m) == CHOOSE i \in 1..Len(probe.candidates) : probe.candidates[i].matchId = m
ScoreCalled == probe.op = "scoreCandidates"

\* C13: with the best score above 3 min and at most 10 min, and the best
\* candidate alone or at least 5 min ahead of the second, scoreCandidates
\* returns linked with a best candidate.
C13_LinkedWhenAloneOrSeparated ==
  (/\ ScoreCalled
   /\ Survivors # {}
   /\ BestScore > LinkTightMs
   /\ BestScore <= LinkWideMs
   /\ (Cardinality(Survivors) = 1 \/ SecondScore - BestScore >= LinkSeparationMs))
  => /\ probe.decision.status = "linked"
     /\ ScoreOf(IndexOfId(probe.decision.matchId)) = BestScore

TooEarly == (1..Len(probe.candidates)) \ Survivors
ListedIndices == {IndexOfId(probe.decision.candidates[k]) : k \in 1..Len(probe.decision.candidates)}

\* C14: a candidate that starts more than 60 s before the recording's time is
\* never the linked match and never in the ambiguous list; when no candidate
\* passes the filter the result is not_found.
C14_TooEarlyDiscarded ==
  ScoreCalled =>
    /\ probe.decision.status = "linked" => IndexOfId(probe.decision.matchId) \in Survivors
    /\ probe.decision.status = "ambiguous" => ListedIndices \subseteq Survivors
    /\ Survivors = {} => probe.decision.status = "not_found"
    /\ Survivors # {} => probe.decision.status # "not_found"
\* a call with a too-early candidate listed first and a later one that survives
C14_Witness ==
  /\ ScoreCalled
  /\ 1 \in TooEarly
  /\ Survivors # {}
  /\ probe.decision.status = "ambiguous"

\* C15: a linked result names a candidate of minimal score, with that score as
\* confidenceMs, and the result is linked whenever the minimal score is at
\* most 3 min; an ambiguous result lists at most 5 ids, in ascending order of
\* score and none with a higher score than an unlisted survivor, with the
\* best score as confidenceMs; confidenceMs is never negative.
C15_RankedByScore ==
  (ScoreCalled /\ Survivors # {}) =>
    /\ BestScore <= LinkTightMs => probe.decision.status = "linked"
    /\ probe.decision.status = "linked" =>
         /\ ScoreOf(IndexOfId(probe.decision.matchId)) = BestScore
         /\ probe.decision.confidenceMs = BestScore
    /\ probe.decision.status = "ambiguous" =>
         LET ids == probe.decision.candidates IN
         /\ Len(ids) <= MaxCandidates
         /\ Len(ids) >= 1
         /\ Cardinality(ListedIndices) = Len(ids)
         /\ \A k \in 1..(Len(ids) - 1) :
              ScoreOf(IndexOfId(ids[k])) <= ScoreOf(IndexOfId(ids[k + 1]))
         /\ \A i \in ListedIndices, j \in Survivors \ ListedIndices : ScoreOf(i) <= ScoreOf(j)
         /\ Survivors \ ListedIndices # {} => Len(ids) = MaxCandidates
         /\ probe.decision.confidenceMs = BestScore
    /\ probe.decision.confidenceMs >= 0
\* six candidates pass the filter, out of order, and five of them are listed
C15_Witness ==
  /\ ScoreCalled
  /\ Cardinality(Survivors) > MaxCandidates
  /\ probe.decision.status = "ambiguous"
  /\ Len(probe.decision.candidates) = MaxCandidates
  /\ ScoreOf(1) > ScoreOf(2)

\* C16: scoreCandidates called again on the same inputs returns the same
\* status, matchId, candidates and confidenceMs, and a call changes neither
\* its inputs nor any recording, cache, timer or limiter state.
C16_ScoreStep ==
  (probe' # probe /\ probe'.op = "scoreCandidates") =>
    /\ UNCHANGED <<rlVars, wVars, lVars>>
    /\ probe.op = "scoreCandidates" =>
         (probe'.vodTimeMs = probe.vodTimeMs /\ probe'.candidates = probe.candidates)
C17_Step ==
  \A v \in Vods :
    (lastCall'.vod = v /\ (db[v].status = "linking" \/ db[v].matchId # NoMatch)) =>
      IF lastCall'.force
        THEN /\ lastWrites' # <<>>
             /\ lastNotified' = 1
             /\ db'[v].matchId = NoMatch
             /\ db'[v].status = (IF configured THEN "linking" ELSE "not_found")
             /\ configured =>
                  \E a \in AttemptIds :
                    /\ attempts[a].pc = "free"
                    /\ attempts'[a].pc = "import"
                    /\ attempts'[a].vod = v
                    /\ attempts'[a].force
        ELSE /\ db' = db
             /\ lastWrites' = <<>>
             /\ lastNotified' = 0
             /\ lastSlots' = 0
             /\ attempts' = attempts
             /\ UNCHANGED <<matchIdsCache, matchTimeCache, matchMetadata>>

\* C17: autoLinkVod without force on a recording that is linking or has a
\* matchId writes no link field, starts no attempt (so requests no slot) and
\* notifies nobody; with force it proceeds in both cases.
C17_NoOpUnlessForced == [][C17_Step]_vars
\* autoLinkVod was just called without force on a recording that another
\* attempt is linking, and did nothing
C17_Witness ==
  /\ lastCall.vod # 0
  /\ ~lastCall.force
  /\ db[lastCall.vod].status = "linking"
  /\ lastWrites = <<>>
  /\ \E a \in AttemptIds : attempts[a].vod = lastCall.vod /\ attempts[a].pc # "free"

\* The probed autoLinkVod call: the ids of window t whose details are fetched
\* and that start no more than 60 s before t
AttemptCalled == probe.op = "autoLinkVod"
DeltaOf(t, m) == matchStartMs(m) - t
PassingIds(t) ==
  {probe.ids[t][i] : i \in {j \in 1..Min(Len(probe.ids[t]), MAX_MATCH_DETAILS) :
                             DeltaOf(t, probe.ids[t][j]) >= -ALLOW_EARLY_MS}}
ProbeAnchors == vodTimesToTry(probe.vod)
FirstPassingAnchor ==
  ProbeAnchors[CHOOSE k \in 1..Len(ProbeAnchors) :
                 /\ PassingIds(ProbeAnchors[k]) # {}
                 /\ \A j \in 1..(k - 1) : PassingIds(ProbeAnchors[j]) = {}]

\* C18: a forced autoLinkVod never writes linked and never sets matchId; if
\* for some anchor a candidate passes the early-tolerance filter, the call
\* ends ambiguous with at most 5 ids, the ones closest after (or within 60 s
\* before) the first such anchor, in ascending order of start-time delta.
C18_ForcedEndsInPicker ==
  (AttemptCalled /\ probe.force) =>
    /\ \A i \in 1..Len(probe.writes) :
         probe.writes[i].to # "linked" /\ probe.writes[i].by # "linkMatch"
    /\ probe.rowOut.matchId = NoMatch
    /\ (probe.cfg /\ \E k \in 1..Len(ProbeAnchors) : PassingIds(ProbeAnchors[k]) # {}) =>
         LET t == FirstPassingAnchor
             ids == probe.rowOut.candidates
             listed == {ids[i] : i \in 1..Len(ids)}
         IN /\ probe.ended = "done"
            /\ probe.rowOut.status = "ambiguous"
            /\ Len(ids) >= 1
            /\ Len(ids) <= MaxCandidates
            /\ Cardinality(listed) = Len(ids)
            /\ listed \subseteq PassingIds(t)
            /\ \A i \in 1..(Len(ids) - 1) : DeltaOf(t, ids[i]) <= DeltaOf(t, ids[i + 1])
            /\ \A m \in listed, n \in PassingIds(t) \ listed : DeltaOf(t, m) <= DeltaOf(t, n)
            /\ PassingIds(t) \ listed # {} => Len(ids) = MaxCandidates
            /\ probe.rowOut.confidenceMs = Max(0, DeltaOf(t, ids[1]))
\* a forced relink of a linked recording found six candidates, one of them a
\* match scoreCandidates would link, and ended with the five closest listed
C18_Witness ==
  /\ AttemptCalled
  /\ probe.force
  /\ probe.row.status = "linked"
  /\ probe.rowOut.status = "ambiguous"
  /\ Len(probe.rowOut.candidates) = MaxCandidates
  /\ \E m \in PassingIds(FirstPassingAnchor) :
       DeltaOf(FirstPassingAnchor, m) >= 0 /\ DeltaOf(FirstPassingAnchor, m) <= LinkTightMs

\* a remote call of an autoLinkVod call failed in this step; Failed(a): the
\* call in slot a was the one awaiting it
RemoteFailed == lastFailure'.vod # 0
Failed(a) == RemoteFailed /\ attempts[a].pc # "free" /\ attempts'[a] # attempts[a]

\* C19 (as stated): a failure of any remote call of an attempt (ID list, match
\* detail, or the metadata fetch after a linked decision) ends the attempt at
\* once with state error and the failure message.
C19_AnyStep ==
  \A a \in AttemptIds :
    Failed(a) =>
      /\ attempts'[a] = FreeAttempt
      /\ db'[attempts[a].vod].status = "error"
      /\ db'[attempts[a].vod].error = "remote"
C19_Step ==
  \A a \in AttemptIds :
    Failed(a) =>
      /\ attempts'[a] = FreeAttempt
      /\ lastSlots' = 0
      /\ lastNotified' = 1
      /\ UNCHANGED <<matchIdsCache, matchTimeCache, matchMetadata>>
      /\ IF attempts[a].pc = "meta"
           THEN db' = db /\ lastWrites' = <<>>
           ELSE /\ db'[attempts[a].vod].status = "error"
                /\ db'[attempts[a].vod].error = "remote"
                /\ db'[attempts[a].vod].candidates = <<>>
                /\ db'[attempts[a].vod].confidenceMs = NoConfidence
                /\ Len(lastWrites') = 1
EndedInError(p) ==
  /\ lastFailure'.pass = p
  /\ lastFailure'.at \in {"listIds", "fetch"}
  /\ db'[lastFailure'.vod].status = "error"
\* pass p calls autoLinkVod for the next recording of its list in this step
PassCalls(p) ==
  /\ passes[p].running /\ passes'[p].running
  /\ passes[p].todo # <<>> /\ passes'[p].todo = Tail(passes[p].todo)
  /\ lastCall' = [vod |-> Head(passes[p].todo), force |-> FALSE]
C20_Step ==
  \A p \in PassIds :
    /\ EndedInError(p) => (passes' = passes /\ passes'[p].running /\ autoLinkInFlight')
    /\ (passes[p].running /\ passes'[p] # passes[p]) =>
         \/ PassCalls(p)
         \/ passes[p].todo = <<>> /\ passes'[p] = FreePass /\ ~autoLinkInFlight'
C20_Loop ==
  \A p \in RunningPasses :
    /\ autoLinkInFlight
    /\ (PassIdle(p) /\ passes[p].todo # <<>> /\ FreeSlot # 0) => ENABLED PassNext(p)
    /\ (PassIdle(p) /\ passes[p].todo = <<>>) => ENABLED PassEnd(p)
\* C20: an attempt that ends in state error leaves its pass running with its
\* list untouched; a running pass with no call in flight can always call
\* autoLinkVod for the next recording of its list, whatever the states of the
\* recordings before it, and it ends only when the list is used up, and then
\* with the in-flight flag cleared.
C20_SweepSurvivesFailure == []C20_Loop /\ [][C20_Step]_vars
\* an attempt of a pass has just ended in state error while the pass still
\* has a recording to go: the pass is running and its next call is enabled
C20_Witness ==
  /\ lastFailure.pass # 0
  /\ lastFailure.at \in {"listIds", "fetch"}
  /\ db[lastFailure.vod].status = "error"
  /\ passes[lastFailure.pass].running
  /\ passes[lastFailure.pass].todo # <<>>
  /\ ENABLED PassNext(lastFailure.pass)


\* autoLinkVod is called in this step on a recording and with options that
\* pass the guards at the top of the function
CallProceeds ==
  /\ lastCall'.vod # 0
  /\ \/ lastCall'.force
     \/ db[lastCall'.vod].status # "linking" /\ db[lastCall'.vod].matchId = NoMatch
WroteTo(w, states) == \E i \in 1..Len(w) : w[i].to \in states
C21_Step ==
  (CallProceeds /\ ~configured) =>
    /\ db'[lastCall'.vod].status = "not_found"
    /\ db'[lastCall'.vod].error = "config"
    /\ db'[lastCall'.vod].error # NoError
    /\ db'[lastCall'.vod].matchId = NoMatch
    /\ ~WroteTo(lastWrites', {"linking", "error"})
    /\ lastSlots' = 0
    /\ lastNotified' = 1
    /\ attempts' = attempts
    /\ UNCHANGED <<matchIdsCache, matchTimeCache, matchMetadata>>
\* C21: without the API key or the account id, a call of autoLinkVod that
\* passes the entry guards writes not_found with the explanatory message,
\* never linking or error, requests no limiter slot, starts no remote call
\* (the call is over within the step) and notifies once.
C21_UnconfiguredIsNotFound == [][C21_Step]_vars
\* a forced call without credentials on a linked recording has just ended:
\* the link is gone and the recording is not_found with the message
C21_Witness ==
  /\ lastCall.vod # 0 /\ lastCall.force
  /\ ~configured
  /\ Len(lastWrites) = 2
  /\ lastWrites[1].from = "linked"
  /\ db[lastCall.vod].status = "not_found"
  /\ db[lastCall.vod].error = "config"
  /\ lastNotified = 1


\* a call of autoLinkVod (either copy) with credentials has passed its entry
\* guards and reached its first await
EntryPassed ==
  /\ probe.op \in {"autoLinkVod.entry", "main.autoLinkVod"}
  /\ probe.cfg
  /\ probe.ended = "import"
\* C22: with credentials, a call of autoLinkVod that is not a no-op has
\* written linking and notified before its first await, hence before its
\* first limiter slot and its first remote call.
C22_LinkingAnnouncedFirst ==
  EntryPassed =>
    /\ probe.rowOut.status = "linking"
    /\ probe.writes[Len(probe.writes)].to = "linking"
    /\ probe.notes >= 1
    /\ probe.slots = 0


\* a call of autoLinkVod is at an await inside its try block: its finally
\* will notify when the call ends
NotificationPending == \E a \in AttemptIds : attempts'[a].pc # "free"
\* a scan has completed in this step: the pass is scheduled 250 ms ahead and
\* no setting changed
ScanCompleted ==
  /\ linkTimeouts' # linkTimeouts
  /\ autoLinkTimer' # 0
  /\ linkTimeouts'[autoLinkTimer'] = IpcFollowUpMs
  /\ configured' = configured
C23_Step ==
  /\ lastWrites' # <<>> => (lastNotified' >= 1 \/ NotificationPending)
  /\ ScanCompleted => lastNotified' >= 1
\* C23: every step that writes a recording's link state sends the change
\* notification after the write, or leaves a call in flight whose end sends
\* it; every completed scan sends it.
C23_EveryWriteAnnounced == [][C23_Step]_vars


\* C24: a non-forced call of autoLinkVod on a recording in state ambiguous,
\* not_found or error, and a forced call on a recording in any state, starts
\* an attempt: it passes the entry guards, writes linking (not_found without
\* credentials) and notifies.
C24_RetryAlwaysAvailable ==
  (/\ probe.op = "autoLinkVod.entry"
   /\ probe.force \/ probe.row.status \in {"ambiguous", "not_found", "error"})
  => /\ probe.writes # <<>>
     /\ probe.notes = 1
     /\ probe.rowOut.status = (IF probe.cfg THEN "linking" ELSE "not_found")
     /\ probe.ended = (IF probe.cfg THEN "import" ELSE "done")


\* stop() is called on a watcher that is watching a folder
Stopped == watchPath # NoPath /\ watchPath' = NoPath
C25_Step ==
  Stopped =>
    /\ rescanTimer' = 0
    /\ PendingTimeouts(timeouts') = {}
    /\ pollTimer' = NoTimer
    /\ ~watcher'
    /\ ~rescanInFlight'
    /\ ~rescanQueued'
    /\ rescans' = rescans
\* C25: stop() leaves no debounce timer and no poll timer pending and both
\* flags false; the onRescan calls in progress are untouched, and a rescan
\* that is running, stopped watcher or not, can run to its completion.
C25_StopCancelsAndResets ==
  /\ [][C25_Step]_vars
  /\ [](\A r \in RunningRescans : ENABLED RescanComplete(r))
\* stop() was called while a rescan was running: nothing is pending, the
\* flags are false and the rescan is still in progress
C25_Witness ==
  /\ watchPath = NoPath
  /\ RunningRescans # {}
  /\ ~rescanInFlight /\ ~rescanQueued
  /\ rescanTimer = 0 /\ pollTimer = NoTimer
  /\ PendingTimeouts(timeouts) = {}


\* a pass of autoLinkAllUnlinked starts in this step
PassStarts == \E p \in PassIds : ~passes[p].running /\ passes'[p].running
\* the call in slot a looks its first window up in matchIdsCache in this
\* step and finds an entry
CacheHit(a) ==
  /\ attempts[a].pc = "import"
  /\ attempts'[a] # attempts[a]
  /\ matchIdsCache[Head(attempts[a].anchors)] # <<>>
C26_Step ==
  /\ PassStarts => (matchIdsCache' = EmptyIdsCache /\ matchTimeCache' = {})
  /\ \A a \in AttemptIds :
       (CacheHit(a) /\ ~autoLinkInFlight) =>
         Head(attempts[a].anchors) \notin sweepEntries
\* C26: both caches are empty when a pass starts, and a call of autoLinkVod
\* that runs while no pass is in progress never finds in matchIdsCache an
\* entry that was written during a pass.
C26_CachesLiveForOneSweep == [][C26_Step]_vars


\* a step of the get-vod-link-candidates handler
PickerSteps == picker' # picker
\* C27: no step of the get-vod-link-candidates handler, from its call to its
\* return, changes a row of the vods table, whether the handler returns
\* early, its fetches arrive, arrive unusable or reject.
C27_PickerChangesNoLinkState == [][PickerSteps => db' = db]_vars
\* the handler has returned one candidate of an ambiguous recording's two
\* after a fetch that failed or was unusable: the recording is as it was
C27_Witness ==
  /\ picker.pc = "idle"
  /\ picker.vod # 0
  /\ Len(picker.returned) = 1
  /\ db[picker.vod].status = "ambiguous"
  /\ db[picker.vod].candidates = <<"m2", "m3">>
  /\ db[picker.vod].matchId = NoMatch


(***************************************************************************)
(* The vod:// protocol                                                     *)
(***************************************************************************)
ResolveCalled == probe.op = "resolveVodRequestToFilePath"
DecodedPath == decodeVodUrlToFilePath(probe.requestUrl)
HasDecodedPath == DecodedPath # NoFilePath /\ DecodedPath # <<>>
\* the directories from the file system's root down to p once its '..'
\* segments are resolved (a relative path starts in the working directory)
Location(p) ==
  normalizeString(Split(IF p # <<>> /\ p[1] = "/" THEN p ELSE Cwd \o <<"/">> \o p, <<>>),
                  <<>>)
\* p is the directory r or lies below it
LiesWithin(p, r) ==
  LET P == Location(p)
      R == Location(r)
  IN Len(R) <= Len(P) /\ \A i \in 1..Len(R) : P[i] = R[i]
GivenRoots ==
  {probe.allowedRoots[i] : i \in 1..Len(probe.allowedRoots)} \ {<<>>}
InsideSomeRoot == \E r \in GivenRoots : LiesWithin(DecodedPath, r)
\* ok is returned only for a decoded path inside an allowed root
OkOnlyInsideRoot ==
  ResolveCalled /\ probe.res.ok
    => HasDecodedPath /\ InsideSomeRoot /\ probe.res.filePath = DecodedPath
RejectedAs(reason) == ~probe.res.ok /\ probe.res.reason = reason

\* C28 as stated: ok only for a decoded path that, with its '..' segments
\* resolved, is an allowed root or lies inside one, and every decoded path
\* outside every allowed root is rejected with reason out_of_root.
C28_OutsideIsOutOfRoot ==
  /\ OkOnlyInsideRoot
  /\ ResolveCalled /\ HasDecodedPath /\ ~InsideSomeRoot => RejectedAs("out_of_root")

\* C28: ok only for a decoded path that, with its '..' segments resolved, is
\* an allowed root or lies inside one; a decoded path outside every allowed
\* root is rejected, with reason out_of_root when at least one allowed root
\* is given and with reason no_allowed_roots when none is.
C28_OnlyInsideAllowedRoots ==
  /\ OkOnlyInsideRoot
  /\ ResolveCalled /\ HasDecodedPath /\ ~InsideSomeRoot
       => IF GivenRoots = {} THEN RejectedAs("no_allowed_roots")
          ELSE RejectedAs("out_of_root")
\* a request for an existing .mp4 file whose path starts inside the allowed
\* root /a and leaves it through '..' was refused as out_of_root
C28_Witness ==
  /\ ResolveCalled
  /\ probe.allowedRoots = << <<"/", "a">> >>
  /\ DecodedPath = <<"/", "a", "/", ".", ".", "/", "b", "/", "f", ".", "m", "p", "4">>
  /\ probe.stat = "file"
  /\ RejectedAs("out_of_root")


(***************************************************************************)
(* The unqueued limiter of main.ts                                         *)
(***************************************************************************)
\* C29: with several concurrent callers of the unqueued limiter, any two
\* grants are at least the minimum interval apart and no rolling window
\* holds more than the window's maximum of grants.
C29_UnqueuedLimiterKeepsLimits ==
  /\ \A i \in 1..Len(grants) : \A j \in 1..Len(grants) :
       i < j => GrantAt(j) - GrantAt(i) >= minIntervalMs
  /\ \A j \in 1..Len(grants) :
       Cardinality({i \in 1..j : GrantAt(j) - GrantAt(i) < windowMs}) <= windowMax


(***************************************************************************)
(* The anchor loop of autoLinkVod                                          *)
(***************************************************************************)
\* a normal-mode call that passed the entry checks and reached the loop
NormalAttempt ==
  /\ AttemptCalled
  /\ ~probe.force
  /\ probe.cfg
  /\ probe.row.matchId = NoMatch
  /\ probe.row.status # "linking"
\* creation time, then modification time if it differs
AnchorsInOrder ==
  IF modifiedAt(probe.vod) # createdAt(probe.vod)
    THEN <<createdAt(probe.vod), modifiedAt(probe.vod)>>
    ELSE <<createdAt(probe.vod)>>
\* what the scoring of anchor t yields: not_found for an empty ID list, else
\* the score of the details of its first MAX_MATCH_DETAILS ids
AnchorScore(t) ==
  IF probe.ids[t] = <<>> THEN NotFoundDecision
  ELSE scoreCandidates(t, [i \in 1..Min(Len(probe.ids[t]), MAX_MATCH_DETAILS) |->
                             Candidate(probe.ids[t][i])])
Decisive(k) == AnchorScore(AnchorsInOrder[k]).status \in {"linked", "ambiguous"}
FirstDecisive ==
  CHOOSE k \in 1..Len(AnchorsInOrder) : Decisive(k) /\ \A j \in 1..(k - 1) : ~Decisive(j)

\* C30: a normal-mode attempt ends with the state of the first anchor, in the
\* order creation time then (if different) modification time, whose scoring
\* yields linked or ambiguous, and the loop goes to no later anchor; an anchor
\* with an empty ID list or a not_found score is passed over; with every
\* anchor passed over the row is not_found with error, candidateIds and
\* confidenceMs null.
C30_FirstDecisiveAnchorEndsAttempt ==
  NormalAttempt =>
    IF \E k \in 1..Len(AnchorsInOrder) : Decisive(k)
      THEN LET k == FirstDecisive
               d == AnchorScore(AnchorsInOrder[k])
           IN /\ probe.rowOut.status = d.status
              /\ probe.rowOut.confidenceMs = d.confidenceMs
              /\ probe.rowOut.matchId = d.matchId
              /\ probe.rowOut.candidates = d.candidates
              /\ probe.rowOut.error = NoError
              /\ probe.untried = SubSeq(AnchorsInOrder, k, Len(AnchorsInOrder))
              /\ probe.writes[Len(probe.writes)].to = d.status
      ELSE /\ probe.rowOut = [NullRow EXCEPT !.status = "not_found"]
           /\ probe.untried = <<>>
           /\ probe.ended = "done"
\* the creation-time anchor had ids but scored not_found, and the attempt
\* ended with the decision of the modification-time anchor
C30_Witness ==
  /\ NormalAttempt
  /\ Len(AnchorsInOrder) = 2
  /\ probe.ids[AnchorsInOrder[1]] # <<>>
  /\ ~Decisive(1)
  /\ Decisive(2)
  /\ probe.rowOut.status = AnchorScore(AnchorsInOrder[2]).status


(***************************************************************************)
(* main.ts: from a filesystem event to a sweep                             *)
(***************************************************************************)
\* scanVODs of rescan r settles in this step; Succeeded: it was fulfilled
\* and 'vods-updated' was sent
ScanSettles(r) == rescans[r] = "running" /\ rescans'[r] = "free"
Succeeded == lastNotified' = 1
\* a rescan starts in this step
RescanStarts == \E r \in RescanIds : rescans[r] = "free" /\ rescans'[r] = "running"
\* a sweep was asked for and no pass has started since
SweepOwed == autoLinkTimer # 0 \/ autoLinkQueued
C31_Step ==
  /\ \A r \in RescanIds :
       ScanSettles(r) =>
         IF Succeeded
           THEN autoLinkTimer' # 0 /\ linkTimeouts'[autoLinkTimer'] = IpcFollowUpMs
           ELSE UNCHANGED <<autoLinkTimer, linkTimeouts, autoLinkQueued>>
  /\ burst > 0 /\ burst' = 0 => RescanStarts
  /\ SweepOwed /\ ~SweepOwed' => PassStarts

\* C31: a rescan whose scan succeeds arms the sweep timer and one whose scan
\* fails leaves the sweep queue as it was; while a folder is watched, a
\* filesystem event is followed by the start of a rescan, and a sweep that
\* is owed (after a successful rescan) is followed by the start of a pass.
C31_RescanThenSweep ==
  /\ [][C31_Step]_vars
  /\ (burst > 0) ~> (burst = 0)
  /\ SweepOwed ~> ~SweepOwed
\* events arrived, the rescan started after the last of them has finished,
\* and the pass its success asked for is running
C31_Witness ==
  /\ requests >= 1
  /\ burst = 0
  /\ watchPath # NoPath
  /\ ~rescanInFlight
  /\ autoLinkInFlight
  /\ ~SweepOwed


(***************************************************************************)
(* Force mode and the sweeps that follow                                   *)
(***************************************************************************)
\* a forced autoLinkVod left the recording ambiguous and a pass has run since
SweptAfterForcedAmbiguous ==
  /\ AttemptCalled
  /\ probe.force
  /\ probe.rowOut.status = "ambiguous"
  /\ probe.swept
\* C32: a recording a forced linkOne left ambiguous is not linked by the next
\* automatic sweep: the sweep neither sets its matchId nor writes linked.
C32_ForcedAmbiguousStaysUnlinked ==
  SweptAfterForcedAmbiguous =>
    probe.rowAfter.matchId = NoMatch /\ probe.rowAfter.status # "linked"


(***************************************************************************)
(* Manual links and the attempts around them                               *)
(***************************************************************************)
LinkColumns(row) == <<row.matchId, row.status, row.confidenceMs, row.candidates>>
\* the non-forced call in slot a, which has linked nothing itself, goes on in
\* this step while its recording has a matchId
GoesOnAfterManualLink(a) ==
  /\ attempts[a].pc # "free"
  /\ ~attempts[a].force
  /\ attempts[a].linkId = NoMatch
  /\ attempts'[a] # attempts[a]
  /\ db[attempts[a].vod].matchId # NoMatch
\* a non-forced call starts in this step on a recording that has a matchId
StartsAfterManualLink(v) ==
  /\ lastCall'.vod = v
  /\ ~lastCall'.force
  /\ db[v].matchId # NoMatch
C33_Step ==
  /\ \A a \in AttemptIds :
       GoesOnAfterManualLink(a) =>
         LinkColumns(db'[attempts[a].vod]) = LinkColumns(db[attempts[a].vod])
  /\ \A v \in Vods :
       StartsAfterManualLink(v) => LinkColumns(db'[v]) = LinkColumns(db[v])

\* C33: no step of a non-forced linkOne, started before or after a manual
\* link set the recording's matchId, changes the recording's matchId, state,
\* confidenceMs or candidateIds.
C33_ManualLinkIsFinal == [][C33_Step]_vars


(***************************************************************************)
(* The linker with every remote call settling                              *)
(***************************************************************************)
\* the call in slot a moves on: the import, the request or the fetch it awaits
\* settles.  It can whenever the call is in flight; the first disjunct, which
\* implies the second, names one step that shows it.
AttemptMovesOn(a) ==
  /\ attempts[a].pc # "free"
  /\ \/ /\ attempts' = [attempts EXCEPT ![a] = FreeAttempt]
        /\ UNCHANGED <<db, configured, autoLinkTimer, linkTimeouts, autoLinkInFlight,
                       autoLinkQueued, matchIdsCache, matchTimeCache, matchMetadata,
                       passes, lastWrites, requests, lastCall, lastNotified,
                       lastSlots, lastFailure, sweepEntries>>
        /\ LFrame
     \/ attempts'[a] # attempts[a]
AttemptStep(a) ==
  \/ ImportDone(a)
  \/ \E matchIds \in IdLists : ListIdsResolve(a, matchIds)
  \/ \E usable \in BOOLEAN : FetchResolve(a, usable)
  \/ RemoteReject(a)
  \/ \E ok \in BOOLEAN : MetadataSettle(a, ok)
NextA ==
  \/ \E v \in Vods, force \in BOOLEAN : LinkOne(v, force)
  \/ \E a \in AttemptIds : AttemptStep(a)
  \/ \E v \in Vods, m \in MatchIds : LinkMatchIpc(v, m)
  \/ \E d \in {0, IpcFollowUpMs} : ScheduleIpc(d)
  \/ \E cfg \in BOOLEAN : SetSetting(cfg)
  \/ \E id \in TimerIds : AutoLinkTimerFire(id)
  \/ \E p \in PassIds : PassNext(p)
  \/ \E p \in PassIds : PassEnd(p)
FairA == \A a \in AttemptIds : WF_vars(AttemptMovesOn(a))
SpecA == Init /\ [][NextA]_vars /\ FairA

InFlight(a) == attempts[a].pc # "free"
LinkingHasAttempt ==
  \A v \in Vods :
    db[v].status = "linking" => \E a \in AttemptIds : InFlight(a) /\ attempts[a].vod = v
\* the call in slot a leaves the matching it entered by writing linking
EndsMatching(a) ==
  /\ attempts[a].pc \in {"import", "listIds", "fetch"}
  /\ attempts'[a].pc \in {"free", "meta"}
WritesFinalState ==
  /\ lastWrites' # <<>>
  /\ lastWrites'[Len(lastWrites')].to \in FinalStates
  /\ lastWrites'[Len(lastWrites')].by \in {"setVodLinkStatus", "linkMatch"}
C34_Step == \A a \in AttemptIds : EndsMatching(a) => WritesFinalState

NextN ==
  \/ \E v \in Vods : LinkOne(v, FALSE)
  \/ \E a \in AttemptIds : AttemptStep(a)
  \/ \E v \in Vods, m \in MatchIds : LinkMatchIpc(v, m)
  \/ \E d \in {0, IpcFollowUpMs} : ScheduleIpc(d)
  \/ \E cfg \in BOOLEAN : SetSetting(cfg)
  \/ \E id \in TimerIds : AutoLinkTimerFire(id)
  \/ \E p \in PassIds : PassNext(p)
  \/ \E p \in PassIds : PassEnd(p)
SpecN == Init /\ [][NextN]_vars

\* C35: while no forced linkOne is invoked, at most one linkOne call per
\* recording is between its write of linking and its return, however sweeps
\* and manually started non-forced calls interleave.
C35_OneAttemptPerRecording ==
  \A a, b \in AttemptIds :
    (InFlight(a) /\ InFlight(b) /\ attempts[a].vod = attempts[b].vod) => a = b
\* a non-forced call has just come for a recording whose call is in flight
C35_Witness ==
  /\ lastCall.vod # 0
  /\ ~lastCall.force
  /\ lastWrites = <<>>
  /\ \E a \in AttemptIds : InFlight(a) /\ attempts[a].vod = lastCall.vod
  /\ db[lastCall.vod].status = "linking"


Executing == {c \in Callers : pc[c] = "running"}
\* caller c's run begins in this step: waitForSlot is called
BeginsAcquisition(c) == pc[c] = "queued" /\ pc'[c] # "queued"
EarlierCallers(c) == {queue[i] : i \in 1..(PosInQueue(c) - 1)}
C36_Step ==
  \A c \in Callers :
    BeginsAcquisition(c) => \A d \in EarlierCallers(c) : pc[d] = "settled"

\* C36: operations passed to one limiter never overlap: a caller's slot
\* acquisition begins only when the operation of every earlier caller has
\* settled, and at most one operation is executing at any time.
C36_OperationsNeverOverlap ==
  /\ [](Cardinality(Executing) <= 1)
  /\ [][C36_Step]_vars
\* an operation executes after an earlier one settled, a later caller queued
C36_Witness ==
  \E c, d, e \in Callers :
    /\ pc[c] = "settled" /\ pc[d] = "running" /\ pc[e] = "queued"
    /\ PosInQueue(c) < PosInQueue(d) /\ PosInQueue(d) < PosInQueue(e)


(***************************************************************************)
(* The queued limiter with a running clock and settling operations         *)
(***************************************************************************)
\* The event loop runs a continuation that is ready, timers fire once due,
\* and every operation passed to withRiotRateLimit settles.
FairRL ==
  /\ WF_vars(Tick)
  /\ \A c \in Callers :
       /\ WF_vars(StartRun(c))
       /\ WF_vars(WakeInterval(c))
       /\ WF_vars(WakeWindow(c))
       /\ WF_vars(Settle(c))
SpecRLFair == Init /\ [][NextRL]_vars /\ FairRL

Granted(c) == \E i \in 1..Len(grants) : GrantOf(i) = c
\* C37: every operation settling, each caller of withRiotRateLimit is in the
\* end granted a slot, has its operation started and its result delivered,
\* however many callers wait at once.
C37_EveryCallerServed ==
  \A c \in Callers :
    /\ (pc[c] = "queued") ~> Granted(c)
    /\ (pc[c] = "queued") ~> (pc[c] = "running")
    /\ (pc[c] = "queued") ~> (pc[c] = "settled" /\ delivered[c] = outcome[c] /\ delivered[c] # "none")
\* all callers were waiting at once and have all been served
C37_Witness ==
  /\ \A c \in Callers : pc[c] = "settled" /\ delivered[c] # "none" /\ calledAt[c] = StartMs


(***************************************************************************)
(* The sweep queue with firing timers and ending calls                     *)
(***************************************************************************)
\* A pending timer of scheduleAutoLink fires, the loop of a pass goes on once
\* the call it awaits has returned, and every call of autoLinkVod moves on.
FairQ ==
  /\ FairA
  /\ \A id \in TimerIds : WF_vars(AutoLinkTimerFire(id))
  /\ \A p \in PassIds : WF_vars(PassNext(p)) /\ WF_vars(PassEnd(p))
SpecQ == Init /\ [][NextA]_vars /\ FairQ

\* a handler calls scheduleAutoLink in this step
ScheduleCalled == requests' = requests + 1 /\ lastCall' = NoCall /\ lastWrites' = <<>>
TimerPending == autoLinkTimer # 0 /\ linkTimeouts[autoLinkTimer] >= 0
C38_Step ==
  /\ ScheduleCalled => TimerPending'
  /\ autoLinkQueued /\ ~autoLinkQueued' => TimerPending'
  /\ SweepOwed /\ ~SweepOwed' => PassStarts

\* C38: a call of scheduleAutoLink leaves a timer pending, whether it came
\* while idle, while a timer was pending or while a pass was running; a
\* pending or queued sweep is given up only by the start of a pass; and,
\* triggers having stopped and every call of linkOne ending, that pass starts.
C38_TriggerNeverLost ==
  /\ [](autoLinkTimer # 0 => TimerPending)
  /\ [][C38_Step]_vars
  /\ SweepOwed ~> ~SweepOwed
\* the trigger came while a pass was running and its timer fired during it
C38_Witness ==
  /\ autoLinkInFlight
  /\ autoLinkQueued
  /\ \E p \in PassIds : passes[p].running
  /\ requests = MaxRequests


\* the watcher is stopped before and after the step
StaysStopped == watchPath = NoPath /\ watchPath' = NoPath
C39_Step ==
  StaysStopped =>
    /\ ~RescanStarts
    /\ PendingTimeouts(timeouts') = {}
    /\ rescanTimer' = 0
    /\ pollTimer' = NoTimer
    /\ ~rescanInFlight' /\ ~rescanQueued'

\* C39: from stop() to the next start() no rescan starts: no timer is
\* pending that could fire, no event or poll tick arms one, and the completion
\* of a rescan that was running when stop() was called arms none, a follow-up
\* queued before the stop included.
C39_StoppedStartsNothing ==
  /\ [](watchPath = NoPath => PendingTimeouts(timeouts) = {} /\ pollTimer = NoTimer)
  /\ [][C39_Step]_vars
\* stop() came while a rescan was running for which a follow-up had been
\* queued; the rescan is about to complete
C39_Witness ==
  /\ watchPath = NoPath
  /\ \E r \in RescanIds : rescans[r] = "running" /\ sawTrigger[r]
  /\ ~rescanQueued


(***************************************************************************)
(* One call of autoLinkVod from its entry to its return, caches empty      *)
(***************************************************************************)
\* ID lists the remote may answer with; the longest has more ids than
\* MAX_MATCH_DETAILS
ColdIdLists ==
  {<<>>, <<"m1">>, <<"m3", "m2">>, <<"m6", "m4", "m3", "m2", "m1", "m5">>,
   <<"m6", "m4", "m3", "m2", "m1", "m5", "m7">>}
\* which of the call's detail fetches, counted from 1, return a usable match
FetchPatterns == {"all", "none", "late", "odd"}
UsableFetch(pattern, n) ==
  CASE pattern = "all" -> TRUE
    [] pattern = "none" -> FALSE
    [] pattern = "late" -> n > MAX_MATCH_DETAILS
    [] OTHER -> n % 2 = 1
\* the call goes on from await to await until it returns; reqs lists the
\* calls of withRiotRateLimit it has made
RECURSIVE RunCold(_, _, _, _, _)
RunCold(M, reqs, ids, pattern, metaOk) ==
  CASE M.a.pc = "listIds" ->
         RunCold(Run(GotIds(M, ids[Head(M.a.anchors)])),
                 Append(reqs, [kind |-> "list", anchor |-> Head(M.a.anchors)]),
                 ids, pattern, metaOk)
    [] M.a.pc = "fetch" ->
         LET m == M.a.ids[M.a.idx]
             n == Cardinality({i \in 1..Len(reqs) : reqs[i].kind = "fetch"}) + 1
             M1 == IF UsableFetch(pattern, n)
                     THEN [M EXCEPT !.timeCache = @ \cup {m}, !.meta = @ \cup {m},
                                    !.a = [@ EXCEPT !.pc = "details",
                                                    !.cands = Append(@, Candidate(m)),
                                                    !.idx = @ + 1]]
                     ELSE [M EXCEPT !.a = [@ EXCEPT !.pc = "details", !.idx = @ + 1]]
         IN RunCold(Run(M1),
                    Append(reqs, [kind |-> "fetch", anchor |-> Head(M.a.anchors)]),
                    ids, pattern, metaOk)
    [] M.a.pc = "meta" ->
         [reqs |-> Append(reqs, [kind |-> "meta", anchor |-> 0]),
          m |-> Done(IF metaOk THEN [M EXCEPT !.meta = @ \cup {M.a.linkId}] ELSE M)]
    [] OTHER -> [reqs |-> reqs, m |-> M]
ColdCall ==
  /\ probe.op = "none"
  /\ \E v \in Vods, force \in BOOLEAN, ids \in [AnchorTimes -> ColdIdLists],
        pattern \in FetchPatterns, metaOk \in BOOLEAN :
       LET M0 == [a |-> NewAttempt(v, force, 0), row |-> NullRow, log |-> <<>>,
                  idsCache |-> EmptyIdsCache, timeCache |-> {}, meta |-> {},
                  notes |-> 0, slots |-> 0]
           M1 == Enter(M0, TRUE)
           R == RunCold(Run([M1 EXCEPT !.a = [@ EXCEPT !.pc = "anchor"]]), <<>>,
                        ids, pattern, metaOk)
       IN probe' = [NoProbe EXCEPT !.op = "autoLinkVod.cold", !.rowOut = R.m.row,
                                      !.vod = v, !.force = force, !.cfg = TRUE,
                                      !.ids = ids, !.writes = R.m.log,
                                      !.ended = R.m.a.pc, !.notes = R.m.notes,
                                      !.slots = R.m.slots, !.untried = R.m.a.anchors,
                                      !.reqs = R.reqs]
  /\ PFrame
NextC == ColdCall
SpecC == Init /\ [][NextC]_vars


ColdCalled == probe.op = "autoLinkVod.cold"
SlotsOf(kind, t) ==
  Cardinality({i \in 1..Len(probe.reqs) :
                 probe.reqs[i].kind = kind /\ probe.reqs[i].anchor = t})
AnchorsAsked == {probe.reqs[i].anchor : i \in {j \in 1..Len(probe.reqs) : probe.reqs[j].kind # "meta"}}
\* C40: one call of linkOne asks the rate limiter for at most one slot for
\* the ID list and at most 6 slots for match details per anchor, over at most
\* two anchors, and for at most one slot for the metadata, that one only as
\* its last request after it linked: at most 15 slots in all.
C40_SlotsPerAttemptBounded ==
  ColdCalled =>
    /\ probe.slots = Len(probe.reqs)
    /\ \A t \in AnchorTimes : SlotsOf("list", t) <= 1 /\ SlotsOf("fetch", t) <= 6
    /\ Cardinality(AnchorsAsked) <= 2
    /\ SlotsOf("meta", 0) <= 1
    /\ SlotsOf("meta", 0) = 1 =>
         /\ probe.reqs[Len(probe.reqs)].kind = "meta"
         /\ probe.rowOut.status = "linked"
    /\ probe.slots <= 15
\* a call that used every slot it may: two ID lists, twelve fetches, the metadata
C40_Witness ==
  /\ ColdCalled
  /\ probe.slots = 15
  /\ \E t \in AnchorTimes : SlotsOf("fetch", t) = 6 /\ SlotsOf("list", t) = 1
  /\ SlotsOf("meta", 0) = 1

====
